---- MODULE Spec2Model ----
(***************************************************************************)
(* Verification model of the llm-eval-runner execution engine.             *)
(*                                                                         *)
(*   Spec        PipelineRunner.run(): the p-limit worker pool, the        *)
(*               per-pair emit step (onRecord sink or chained JSONL        *)
(*               append) and Promise.all over the tasks.                   *)
(***************************************************************************)
EXTENDS Integers, Sequences, FiniteSets, TLC

\* ------------------------------------------------------------------ bounds
MaxSamples == 2
MaxTokens == 2
MaxPairs == 4
MaxConcurrency == 2
MaxFaults == 1
MaxRepairsBound == 1
NumCallers == 2
MaxRpm == 2
MaxTpmUnits == 2
MaxTicks == 4
TickMs == 30000
MaxExpSamples == 1
MaxStoreFaults == 1
NumCacheUsers == 2
MaxClock == 2
MaxJudgeRuns == 3
MaxLen == 3
MaxListLen == 2
NumStartRequests == 2

\* ------------------------------------------------ src/llm/rateLimiter.ts
WindowMs == 60000
MinWaitMs == 50
TokenPollMs == 1000
\* src/llm/mock.ts: payload.max_tokens ?? 512
DefaultTokens == 512

\* ------------------------------------------------------------- src/types.ts
conditionOrder == <<"A0", "A1", "A2", "A3">>

Condition == {conditionOrder[i] : i \in 1..Len(conditionOrder)}

\* Tokens a --conditions list is split into: two valid names, one invalid.
CliTokens == {"A0", "A3", "zz"}

SampleIds == {"s1", "s2"}

SeqsUpTo(S, n) == UNION {[1..k -> S] : k \in 0..n}

\* raw is the --conditions option: absent, or the tokens left by
\* raw.split(/[,\s]+/).filter(Boolean).
RawInputs ==
    {[given |-> FALSE, tokens |-> <<>>]}
        \cup {[given |-> TRUE, tokens |-> s] : s \in SeqsUpTo(CliTokens, MaxTokens)}

DatasetInputs == SeqsUpTo(SampleIds, MaxSamples)

\* ---------------------------------------------------------- src/cli/run.ts
resolveConditions(r) ==
    IF ~r.given
    THEN [ok |-> TRUE, value |-> conditionOrder]
    ELSE LET valid == SelectSeq(r.tokens, LAMBDA tok : tok \in Condition)
         IN  IF Len(valid) = 0
             THEN [ok |-> FALSE, value |-> <<>>]
             ELSE [ok |-> TRUE, value |-> valid]

\* ------------------------------------------------- src/pipeline/runner.ts
\* Mutant of needsState: the verify/repair conditions are taken instead.
needsState_asVerify(condition) == condition = "A2" \/ condition = "A3"

needsState(condition) == condition = "A1" \/ condition = "A3"

VARIABLES
    dataset,      \* RunnerInit.dataset: sample ids, in file order
    conditions,   \* RunnerInit.conditions
    hasOnRecord,  \* RunnerInit.onRecord is set
    concurrency,  \* runSettings.concurrency, the p-limit pool size
    pc,           \* per task: position in the function given to the limiter
    rec,          \* per task: the RunRecord processSample returned
    prev,         \* per task: the writeChain promise its append was chained on
    writeChain,   \* the task whose append promise this.writeChain holds (0: initial)
    file,         \* lines of the JSONL output file
    sink,         \* records handed to onRecord
    runStatus,    \* the promise returned by run()
    faults,       \* number of exceptions raised so far
    \* --- one (sample, condition) pair inside processSample
    pairCondition, \* the condition argument
    maxRepairs,    \* runSettings.maxRepairs
    settings,      \* hard-check settings and the format constraints
    llm,           \* the optional components that have a model configured
    stage,         \* the await processSample is suspended at
    state,         \* the local `state`: "absent" (undefined) or "built"
    draft,         \* translation.draft
    current,       \* the local `current`
    verification,  \* the local `verification`
    attempt,       \* the local `attempt`
    timing,        \* keys of the local `timing`
    runRecord,     \* the RunRecord returned
    stateBuilds,   \* number of StateBuilder.build calls
    calls,         \* the stage calls processSample has made, in order
    passes,        \* per verifier.verify call: what it reported
    judgeRuns,     \* runSettings.judgeRuns
    usage,         \* the UsageAccumulator of processSample
    spent,         \* the tokens of every LLM response received for the pair
    \* --- the rate limiters of the LLM clients
    limOptions,    \* RateLimiterOptions {rpm, tpm}; 0 stands for unset
    requestTimes,  \* per client: RateLimiter.requestTimes
    tokenHistory,  \* per client: RateLimiter.tokenHistory
    now,           \* Date.now()
    callPc,        \* per caller: position inside schedule()
    callClient,    \* per caller: the client whose generate() it is in
    callTokens,    \* per caller: the declared token cost
    wakeAt,        \* per caller: when its sleep() timer fires
    admitted,      \* log of the calls admitted: caller, client, time, tokens
    \* --- generate() of the OpenAI client and its disk cache
    cache,         \* per request key: the entry file of the DiskCache
    callKey,       \* per caller: the key of its request
    callOut,       \* per caller: where its response came from, and the response
    network,       \* log of the provider requests made: caller, key, ok
    \* --- the DiskCache on its own
    disk,          \* per key: the content of the entry file
    clock,         \* new Date()
    usePc,         \* per cache user: position inside get() or set()
    useReq,        \* per cache user: the call it makes, and the entry it builds
    useGot,        \* per cache user: what get() returned or threw
    written,       \* log of the entry files written: key, content
    \* --- one pair run against the mock provider
    scenario,      \* the sample text, glossary, template and rule toggles
    mockPc,        \* position inside processSample
    userMessage,   \* the user message the translator rendered
    mockDraft,     \* translation.draft
    mockRecord,    \* the record returned
    \* --- one Judge.score call
    runs,          \* Judge.runs
    judgeLlm,      \* whether the judge has a model
    judgeInput,    \* what heuristicScore reads off the sample and translation
    scores,        \* the ScoreBreakdown pushed by each iteration so far
    judgePc,       \* position inside scoreWithLLM
    judgeResult,   \* the scores returned
    \* --- the caller of run()
    cancelRequested, \* whether the caller has asked for the run to be cancelled
    \* --- main() of the run command
    mainInput,     \* the command line, the files it names and the environment
    mainPc,        \* position inside main()
    outputFile,    \* the output JSONL file: whether it exists, and its lines
    cacheDir,      \* whether the cache directory exists
    exitCode,      \* the exit code of the process, -1 while it runs
    \* --- one ConstraintNormalizer.normalize call
    defaults,      \* the defaults the normalizer was constructed with
    sampleConstraints, \* sample.constraints
    normPc,        \* "start" before the call, "done" after it
    normalized,    \* what normalize returned, or that it threw
    \* --- concurrent POST /:id/start requests for one experiment
    startInput,    \* the experiment row as stored before the requests
    storedStatus,  \* experiments.status as stored
    reqPc,         \* per request: position inside the route handler
    reqSeen,       \* per request: the status of the row it fetched
    launches,      \* the requests that launched a background run, in order
    ended,         \* the requests whose background run has ended
    \* --- one experiment of the web service
    variant,       \* which of the two service modules is in use
    expInput,      \* the experiment row and what its scene filter selects
    expStatus,     \* experiments.status as stored
    startPc,       \* how startExperimentRun ended for its caller
    bgPc,          \* position of the background run
    bgOutcome,     \* how runExperiment ended: "ok" or "error"
    recPc,         \* per record: position between processSample and the insert
    prevWrite,     \* per record: the write its insert was chained on
    storeChain,    \* the record whose write the sink's writeChain holds
    rows,          \* the rows of the runs table, in insertion order
    runOutcome,    \* the promise returned by runner.run()
    storeFaults    \* number of failed inserts so far

runVars == <<dataset, conditions, hasOnRecord, concurrency, pc, rec, prev,
             writeChain, file, sink, runStatus, faults>>

pairVars == <<pairCondition, maxRepairs, settings, llm, stage, state, draft,
              current, verification, attempt, timing, runRecord, stateBuilds,
              calls, passes, judgeRuns, usage, spent>>

diskVars == <<disk, clock, usePc, useReq, useGot, written>>

mockVars == <<scenario, mockPc, userMessage, mockDraft, mockRecord>>

judgeVars == <<runs, judgeLlm, judgeInput, scores, judgePc, judgeResult>>

cancelVars == <<cancelRequested>>

mainVars == <<mainInput, mainPc, outputFile, cacheDir, exitCode>>

normVars == <<defaults, sampleConstraints, normPc, normalized>>

startVars == <<startInput, storedStatus, reqPc, reqSeen, launches, ended>>

toolVars == <<diskVars, mockVars, judgeVars, cancelVars, mainVars, normVars, startVars>>

clientOnlyVars == <<cache, callKey, callOut, network>>

cliVars == <<clientOnlyVars, toolVars>>

limOnlyVars == <<limOptions, requestTimes, tokenHistory, now, callPc, callClient,
                callTokens, wakeAt, admitted>>

limVars == <<limOnlyVars, cliVars>>

expVars == <<variant, expInput, expStatus, startPc, bgPc, bgOutcome, recPc,
             prevWrite, storeChain, rows, runOutcome, storeFaults>>

vars == <<runVars, pairVars, limVars, expVars>>

NumTasks == Len(dataset) * Len(conditions)
Tasks == 1..NumTasks

\* The nested loops of run() push tasks sample-major.
sampleOf(t) == dataset[((t - 1) \div Len(conditions)) + 1]
conditionOf(t) == conditions[((t - 1) % Len(conditions)) + 1]

NoRecord == [task |-> 0]

Active == {"processing", "awaitSink", "chained", "appending"}

activeCount == Cardinality({t \in Tasks : pc[t] \in Active})

InitRun ==
    /\ dataset \in DatasetInputs
    /\ hasOnRecord \in BOOLEAN
    /\ concurrency \in 1..MaxConcurrency
    /\ \E raw \in RawInputs :
         /\ conditions = resolveConditions(raw).value
         /\ runStatus = IF resolveConditions(raw).ok THEN "pending" ELSE "cli_error"
    /\ Len(dataset) * Len(conditions) <= MaxPairs
    /\ pc = [t \in 1..(Len(dataset) * Len(conditions)) |-> "queued"]
    /\ rec = [t \in 1..(Len(dataset) * Len(conditions)) |-> NoRecord]
    /\ prev = [t \in 1..(Len(dataset) * Len(conditions)) |-> 0]
    /\ writeChain = 0
    /\ file = <<>>
    /\ sink = <<>>
    /\ faults = 0

\* Mutant of pLimitMayStart: the pool size is not enforced.
pLimitMayStart_unbounded(t) ==
    /\ pc[t] = "queued"
    /\ \A u \in Tasks : u < t => pc[u] # "queued"

\* p-limit: the queue is FIFO and a queued function starts only while fewer
\* than `concurrency` functions are running.
pLimitMayStart(t) ==
    /\ pc[t] = "queued"
    /\ \A u \in Tasks : u < t => pc[u] # "queued"
    /\ activeCount < concurrency

Start(t) ==
    /\ runStatus # "cli_error"
    /\ pLimitMayStart(t)
    /\ pc' = [pc EXCEPT ![t] = "processing"]
    /\ UNCHANGED <<dataset, conditions, hasOnRecord, concurrency, rec, prev,
                   writeChain, file, sink, runStatus, faults,
                   pairVars, limVars, expVars>>

\* The record processSample assembles for task t.
processSample(t) ==
    [task |-> t, id |-> sampleOf(t), condition |-> conditionOf(t),
     state |-> needsState(conditionOf(t))]

\* Mutant of emit: the sink is notified and the append is chained as well.
emit_both(t, record) ==
    /\ prev' = [prev EXCEPT ![t] = writeChain]
    /\ writeChain' = t
    /\ pc' = [pc EXCEPT ![t] = "chained"]
    /\ sink' = IF hasOnRecord THEN Append(sink, record) ELSE sink

\* Mutant of emit: the append is chained whether or not onRecord is set.
emit_chainOnly(t, record) ==
    /\ prev' = [prev EXCEPT ![t] = writeChain]
    /\ writeChain' = t
    /\ pc' = [pc EXCEPT ![t] = "chained"]
    /\ UNCHANGED sink

\* The emit step of the limited function: onRecord when it is set, else
\* the append is chained on this.writeChain.
emit(t, record) ==
    IF hasOnRecord
    THEN /\ sink' = Append(sink, record)
         /\ pc' = [pc EXCEPT ![t] = "awaitSink"]
         /\ UNCHANGED <<prev, writeChain>>
    ELSE /\ prev' = [prev EXCEPT ![t] = writeChain]
         /\ writeChain' = t
         /\ pc' = [pc EXCEPT ![t] = "chained"]
         /\ UNCHANGED sink

\* processSample resolves and the continuation emits the record.
ProcessDone(t) ==
    /\ pc[t] = "processing"
    /\ rec' = [rec EXCEPT ![t] = processSample(t)]
    /\ emit(t, processSample(t))
    /\ UNCHANGED <<dataset, conditions, hasOnRecord, concurrency, file,
                   runStatus, faults,
                   pairVars, limVars, expVars>>

\* A stage of processSample throws: the limited function rejects.
ProcessThrow(t) ==
    /\ pc[t] = "processing"
    /\ faults < MaxFaults
    /\ faults' = faults + 1
    /\ pc' = [pc EXCEPT ![t] = "rejected"]
    /\ UNCHANGED <<dataset, conditions, hasOnRecord, concurrency, rec, prev,
                   writeChain, file, sink, runStatus,
                   pairVars, limVars, expVars>>

SinkDone(t) ==
    /\ pc[t] = "awaitSink"
    /\ pc' = [pc EXCEPT ![t] = "done"]
    /\ UNCHANGED <<dataset, conditions, hasOnRecord, concurrency, rec, prev,
                   writeChain, file, sink, runStatus, faults,
                   pairVars, limVars, expVars>>

SinkFail(t) ==
    /\ pc[t] = "awaitSink"
    /\ faults < MaxFaults
    /\ faults' = faults + 1
    /\ pc' = [pc EXCEPT ![t] = "rejected"]
    /\ UNCHANGED <<dataset, conditions, hasOnRecord, concurrency, rec, prev,
                   writeChain, file, sink, runStatus,
                   pairVars, limVars, expVars>>

\* Mutant of chainReady: the append is started without waiting for the chain.
chainReady_unchained(t) == TRUE

\* The then-callback of the chain runs once the promise it was chained on
\* is fulfilled.
chainReady(t) == IF prev[t] = 0 THEN TRUE ELSE pc[prev[t]] = "done"

AppendStart(t) ==
    /\ pc[t] = "chained"
    /\ chainReady(t)
    /\ pc' = [pc EXCEPT ![t] = "appending"]
    /\ UNCHANGED <<dataset, conditions, hasOnRecord, concurrency, rec, prev,
                   writeChain, file, sink, runStatus, faults,
                   pairVars, limVars, expVars>>

\* Mutant of appendJsonl: the file is rewritten instead of appended to.
appendJsonl_overwrite(f, record) == <<record>>

\* appendJsonl: one line per record.
appendJsonl(f, record) == Append(f, record)

AppendFinish(t) ==
    /\ pc[t] = "appending"
    /\ file' = appendJsonl(file, rec[t])
    /\ pc' = [pc EXCEPT ![t] = "done"]
    /\ UNCHANGED <<dataset, conditions, hasOnRecord, concurrency, rec, prev,
                   writeChain, sink, runStatus, faults,
                   pairVars, limVars, expVars>>

\* Mutant of AppendFail: the failing append also empties the file.
AppendFail_truncates(t) ==
    /\ pc[t] = "appending"
    /\ faults < MaxFaults
    /\ faults' = faults + 1
    /\ pc' = [pc EXCEPT ![t] = "rejected"]
    /\ file' = <<>>
    /\ UNCHANGED <<dataset, conditions, hasOnRecord, concurrency, rec, prev,
                   writeChain, sink, runStatus,
                   pairVars, limVars, expVars>>

\* appendFile rejects: nothing is added to the file and the chained promise
\* rejects.
AppendFail(t) ==
    /\ pc[t] = "appending"
    /\ faults < MaxFaults
    /\ faults' = faults + 1
    /\ pc' = [pc EXCEPT ![t] = "rejected"]
    /\ UNCHANGED <<dataset, conditions, hasOnRecord, concurrency, rec, prev,
                   writeChain, file, sink, runStatus,
                   pairVars, limVars, expVars>>

\* A then-callback chained on a rejected promise is skipped and the
\* rejection is passed on.
AppendSkip(t) ==
    /\ pc[t] = "chained"
    /\ prev[t] # 0
    /\ pc[prev[t]] = "rejected"
    /\ pc' = [pc EXCEPT ![t] = "rejected"]
    /\ UNCHANGED <<dataset, conditions, hasOnRecord, concurrency, rec, prev,
                   writeChain, file, sink, runStatus, faults,
                   pairVars, limVars, expVars>>

\* Promise.all(tasks)
RunResolve ==
    /\ runStatus = "pending"
    /\ \A t \in Tasks : pc[t] = "done"
    /\ runStatus' = "resolved"
    /\ UNCHANGED <<dataset, conditions, hasOnRecord, concurrency, pc, rec,
                   prev, writeChain, file, sink, faults,
                   pairVars, limVars, expVars>>

RunReject ==
    /\ runStatus = "pending"
    /\ \E t \in Tasks : pc[t] = "rejected"
    /\ runStatus' = "rejected"
    /\ UNCHANGED <<dataset, conditions, hasOnRecord, concurrency, pc, rec,
                   prev, writeChain, file, sink, faults,
                   pairVars, limVars, expVars>>

Next ==
    \/ \E t \in Tasks : Start(t)
    \/ \E t \in Tasks : ProcessDone(t)
    \/ \E t \in Tasks : ProcessThrow(t)
    \/ \E t \in Tasks : SinkDone(t)
    \/ \E t \in Tasks : SinkFail(t)
    \/ \E t \in Tasks : AppendStart(t)
    \/ \E t \in Tasks : AppendFinish(t)
    \/ \E t \in Tasks : AppendFail(t)
    \/ \E t \in Tasks : AppendSkip(t)
    \/ RunResolve
    \/ RunReject


\* ------------------------------------------------------------------------
\* processSample for one (sample, condition) pair
\* ------------------------------------------------------------------------

\* Mutant of needsVerify: the repair loop is entered for every condition.
needsVerify_always(c) == c \in Condition

needsVerify(c) == c = "A2" \/ c = "A3"

\* A candidate translation, by the features the hard checks look at:
\*   jp       it holds a Japanese token that is not whitelisted
\*   missing  a strict glossary term is absent from it
\*   len      its length in characters
\*   meta     it matches /as an ai/i
\*   breaks   its line-break count differs from the source's
Text(jp, missing, len, meta, breaks) ==
    [jp |-> jp, missing |-> missing, len |-> len, meta |-> meta, breaks |-> breaks]

Texts ==
    { Text(FALSE, FALSE, 1, FALSE, FALSE),
      Text(TRUE, FALSE, 2, FALSE, FALSE),
      Text(FALSE, FALSE, MaxLen, TRUE, FALSE),
      Text(FALSE, TRUE, 2, FALSE, TRUE),
      Text(TRUE, TRUE, MaxLen, TRUE, TRUE) }

NoText == [jp |-> FALSE, missing |-> FALSE, len |-> 0, meta |-> FALSE,
           breaks |-> FALSE, none |-> TRUE]

\* hardCheckSettings(config) together with the two format constraints the
\* engine reads (format.maxChars, format.keepLineBreaks). Both length
\* limits are positive integers when set; 0 stands for unset.
Setting(jp, gl, mt, fp, maxLength, maxChars, keep) ==
    [noDisallowedJapanese |-> jp, glossaryStrictMatches |-> gl, noMetaTalk |-> mt,
     formatPreserved |-> fp, maxLength |-> maxLength, maxChars |-> maxChars,
     keepLineBreaks |-> keep]

SettingsInputs ==
    { Setting(TRUE, TRUE, TRUE, TRUE, 0, 2, TRUE),
      Setting(TRUE, TRUE, TRUE, TRUE, 0, 0, FALSE),
      Setting(FALSE, FALSE, FALSE, FALSE, 2, 0, FALSE),
      Setting(TRUE, FALSE, TRUE, TRUE, 1, MaxLen, TRUE) }

\* Which optional components have a model configured.
LlmInputs ==
    { {}, {"verifier"}, {"stateBuilder", "verifier", "repairer", "judge"} }

\* Severities the reviewing model may report, per pass.
LlmIssueInputs == { <<>>, <<"critical">>, <<"minor">> }

Check(id, passed) == [id |-> id, passed |-> passed]

\* format.maxChars ?? settings.maxLength
limitOf(st) == IF st.maxChars # 0 THEN st.maxChars ELSE st.maxLength

\* Mutant of HardCheckEngine_run: the glossary rule passes whatever the text.
HardCheckEngine_run_lenientGlossary(text, st) ==
    (IF st.noDisallowedJapanese
        THEN <<Check("noDisallowedJapanese", ~text.jp)>> ELSE <<>>)
    \o (IF st.glossaryStrictMatches
        THEN <<Check("glossaryStrictMatches", TRUE)>> ELSE <<>>)
    \o (IF limitOf(st) # 0
        THEN <<Check("maxLength", text.len <= limitOf(st))>> ELSE <<>>)
    \o (IF st.noMetaTalk
        THEN <<Check("noMetaTalk", ~text.meta)>> ELSE <<>>)
    \o (IF st.formatPreserved /\ st.keepLineBreaks
        THEN <<Check("formatPreserved", ~text.breaks)>> ELSE <<>>)

\* HardCheckEngine.run
HardCheckEngine_run(text, st) ==
    (IF st.noDisallowedJapanese
        THEN <<Check("noDisallowedJapanese", ~text.jp)>> ELSE <<>>)
    \o (IF st.glossaryStrictMatches
        THEN <<Check("glossaryStrictMatches", ~text.missing)>> ELSE <<>>)
    \o (IF limitOf(st) # 0
        THEN <<Check("maxLength", text.len <= limitOf(st))>> ELSE <<>>)
    \o (IF st.noMetaTalk
        THEN <<Check("noMetaTalk", ~text.meta)>> ELSE <<>>)
    \o (IF st.formatPreserved /\ st.keepLineBreaks
        THEN <<Check("formatPreserved", ~text.breaks)>> ELSE <<>>)

\* Confidences are in thousandths: 800 is the 0.8 of a synthesized issue.
HardConfidence == 800

Issue(id, type, severity, confidence) ==
    [id |-> id, type |-> type, severity |-> severity, confidence |-> confidence]

\* Mutant of hardIssue: a failed Japanese check is reported as critical.
hardIssue_critical(check) ==
    Issue(check.id,
          IF check.id = "formatPreserved" THEN "FORMAT_VIOLATION" ELSE "STYLE_VIOLATION",
          IF check.id = "noDisallowedJapanese" THEN "critical" ELSE "minor",
          HardConfidence)

\* The issue Verifier.verify synthesizes for a failed hard check; the id is
\* the check's id followed by the sample's id.
hardIssue(check) ==
    Issue(check.id,
          IF check.id = "formatPreserved" THEN "FORMAT_VIOLATION" ELSE "STYLE_VIOLATION",
          IF check.id = "noDisallowedJapanese" THEN "major" ELSE "minor",
          HardConfidence)

RECURSIVE MapSeq(_, _)
MapSeq(f(_), seq) ==
    IF seq = <<>> THEN <<>> ELSE <<f(Head(seq))>> \o MapSeq(f, Tail(seq))

\* An issue parsed from the reviewing model's response.
llmIssue(severity) == Issue("llm", "MISTRANSLATION", severity, 500)

\* Mutant of verify: no issue is synthesized for a failed hard check.
verify_llmOnly(text, st, llmSeverities) ==
    [issues |-> MapSeq(llmIssue, llmSeverities),
     hardChecks |-> HardCheckEngine_run(text, st),
     text |-> text]

\* Verifier.verify: the hard checks, one issue per failed check, then the
\* issues of the reviewing model.
verify(text, st, llmSeverities) ==
    LET hardChecks == HardCheckEngine_run(text, st)
        failed == SelectSeq(hardChecks, LAMBDA check : ~check.passed)
    IN  [issues |-> MapSeq(hardIssue, failed) \o MapSeq(llmIssue, llmSeverities),
         hardChecks |-> hardChecks,
         text |-> text]

NoVerification == [issues |-> <<>>, hardChecks |-> <<>>, text |-> NoText]

hasCritical(v) == \E i \in 1..Len(v.issues) : v.issues[i].severity = "critical"
hardFail(v) == \E i \in 1..Len(v.hardChecks) : ~v.hardChecks[i].passed

\* Mutant of statusOf: failed hard checks are not looked at.
statusOf_criticalOnly(v) == IF hasCritical(v) THEN "needs_review" ELSE "ok"

\* The status expression of processSample.
statusOf(v) == IF hasCritical(v) \/ hardFail(v) THEN "needs_review" ELSE "ok"

NoPairRecord == [status |-> "none"]

createUsageAccumulator == [prompt |-> 0, completion |-> 0]

\* The usage every LLM response of this specification reports.
responseUsage == [promptTokens |-> 2, completionTokens |-> 1]

\* usageTokens left undefined by a stage: addUsage returns at once.
NoUsage == [promptTokens |-> 0, completionTokens |-> 0]

addUsage(target, u) ==
    [prompt |-> target.prompt + u.promptTokens,
     completion |-> target.completion + u.completionTokens]

\* The usage of n responses.
nTimes(n, u) == [promptTokens |-> n * u.promptTokens,
                completionTokens |-> n * u.completionTokens]

\* Math.max(1, this.runs)
iterations == IF judgeRuns > 1 THEN judgeRuns ELSE 1

PairIdle ==
    /\ pairCondition = "A0"
    /\ maxRepairs = 0
    /\ settings = <<>>
    /\ llm = {}
    /\ stage = "idle"
    /\ state = "absent"
    /\ draft = <<>>
    /\ current = <<>>
    /\ verification = <<>>
    /\ attempt = 0
    /\ timing = {}
    /\ runRecord = <<>>
    /\ stateBuilds = 0
    /\ calls = <<>>
    /\ passes = <<>>
    /\ judgeRuns = 0
    /\ usage = <<>>
    /\ spent = <<>>

InitPair ==
    /\ pairCondition \in Condition
    /\ maxRepairs \in 0..MaxRepairsBound
    /\ settings \in SettingsInputs
    /\ llm \in LlmInputs
    /\ stage = "start"
    /\ state = "absent"
    /\ draft = NoText
    /\ current = NoText
    /\ verification = NoVerification
    /\ attempt = 0
    /\ timing = {}
    /\ runRecord = NoPairRecord
    /\ stateBuilds = 0
    /\ calls = <<>>
    /\ passes = <<>>
    /\ judgeRuns \in 1..MaxJudgeRuns
    /\ usage = createUsageAccumulator
    /\ spent = createUsageAccumulator

\* Mutant of Normalize: the state stage is skipped for every condition.
Normalize_skipState ==
    /\ stage = "start"
    /\ stage' = "translate"
    /\ calls' = Append(calls, "normalize")
    /\ UNCHANGED <<usage, spent>>
    /\ UNCHANGED <<pairCondition, maxRepairs, judgeRuns, settings, llm, state, draft, current,
                   verification, attempt, timing, runRecord, stateBuilds, passes,
                   runVars, limVars, expVars>>

\* constraintNormalizer.normalize, then the first await of processSample.
Normalize ==
    /\ stage = "start"
    /\ stage' = IF needsState(pairCondition) THEN "state" ELSE "translate"
    /\ UNCHANGED <<pairCondition, maxRepairs, judgeRuns, settings, llm, state, draft, current,
                   verification, attempt, timing, runRecord, stateBuilds, runVars, limVars, expVars>>
    /\ calls' = Append(calls, "normalize")
    /\ UNCHANGED <<passes, usage, spent>>


\* The call processSample is suspended in at each stage.
callOf(at) ==
    CASE at = "start" -> "normalize"
      [] at = "reverify" -> "verify"
      [] OTHER -> at

\* What one verifier.verify call reported: the severities of the reviewing
\* model's issues and whether a hard check failed.
passOf(v, llmSeverities) == [llm |-> llmSeverities, hardFail |-> hardFail(v)]

\* Any stage that throws rejects processSample: no record is returned.
Throw(at) ==
    /\ stage = at
    /\ stage' = "thrown"
    /\ UNCHANGED <<pairCondition, maxRepairs, judgeRuns, settings, llm, state, draft, current,
                   verification, attempt, timing, runRecord, stateBuilds, runVars, limVars, expVars>>
    /\ calls' = Append(calls, callOf(at))
    /\ UNCHANGED <<passes, usage, spent>>


\* constraintSchema.parse rejects the merged constraints.
NormalizeThrow == stage = "start" /\ Throw("start")

\* StateBuilder.build resolves: heuristic or parsed, always an object.
BuildState ==
    /\ stage = "state"
    /\ state' = "built"
    /\ stateBuilds' = stateBuilds + 1
    /\ timing' = timing \cup {"state"}
    /\ stage' = "translate"
    /\ UNCHANGED <<pairCondition, maxRepairs, judgeRuns, settings, llm, draft, current,
                   verification, attempt, runRecord, runVars, limVars, expVars>>
    /\ calls' = Append(calls, "state")
    /\ spent' = IF "stateBuilder" \in llm THEN addUsage(spent, responseUsage) ELSE spent
    /\ UNCHANGED <<passes, usage>>


\* llm.generate throws inside StateBuilder.build (outside its try block).
BuildStateThrow == "stateBuilder" \in llm /\ Throw("state")

Translate ==
    /\ stage = "translate"
    /\ \E text \in Texts :
         /\ draft' = text
         /\ current' = text
    /\ timing' = timing \cup {"translate"}
    /\ stage' = "verify"
    /\ UNCHANGED <<pairCondition, maxRepairs, judgeRuns, settings, llm, state, verification,
                   attempt, runRecord, stateBuilds, runVars, limVars, expVars>>
    /\ calls' = Append(calls, "translate")
    /\ usage' = addUsage(usage, responseUsage)
    /\ spent' = addUsage(spent, responseUsage)
    /\ UNCHANGED passes


TranslateThrow == stage = "translate" /\ Throw("translate")

\* Mutant of afterVerify: the loop test looks at critical issues only.
afterVerify_ignoreHard(v, done) ==
    IF needsVerify(pairCondition) /\ done < maxRepairs /\ hasCritical(v)
    THEN "repair"
    ELSE "judge"

\* Mutant of afterVerify: the repair loop is never entered.
afterVerify_noRepair(v, done) == "judge"

\* Mutant of afterVerify: a repair is made whenever the budget allows one.
afterVerify_always(v, done) ==
    IF needsVerify(pairCondition) /\ done < maxRepairs THEN "repair" ELSE "judge"

\* The loop test of processSample, evaluated after a verification returned:
\* the next await is repairer.repair or judge.score.
afterVerify(v, done) ==
    IF needsVerify(pairCondition) /\ done < maxRepairs /\ (hasCritical(v) \/ hardFail(v))
    THEN "repair"
    ELSE "judge"

\* What the reviewing model contributes to one pass.
LlmIssueChoices == IF "verifier" \in llm THEN LlmIssueInputs ELSE { <<>> }

\* Verifier.runLLM: without a model no issues and no usage; with one, the
\* parsed issues and the response's usage, or, when the output does not
\* parse, no issues and no usage. spent is what the response consumed.
runLLM ==
    IF "verifier" \notin llm
    THEN { [issues |-> <<>>, usageTokens |-> NoUsage, spent |-> NoUsage] }
    ELSE { [issues |-> sev, usageTokens |-> responseUsage, spent |-> responseUsage] :
             sev \in LlmIssueChoices }
         \cup { [issues |-> <<>>, usageTokens |-> NoUsage, spent |-> responseUsage] }

\* The first verifier.verify resolves.
Verify ==
    /\ stage = "verify"
    /\ \E out \in runLLM :
         /\ verification' = verify(current, settings, out.issues)
         /\ stage' = afterVerify(verify(current, settings, out.issues), attempt)
         /\ passes' = Append(passes, passOf(verify(current, settings, out.issues), out.issues))
         /\ usage' = addUsage(usage, out.usageTokens)
         /\ spent' = addUsage(spent, out.spent)
    /\ timing' = timing \cup {"verify"}
    /\ UNCHANGED <<pairCondition, maxRepairs, judgeRuns, settings, llm, state, draft, current,
                   attempt, runRecord, stateBuilds, runVars, limVars, expVars>>
    /\ calls' = Append(calls, "verify")

\* llm.generate throws inside Verifier.runLLM (outside its try block).
VerifyThrow == "verifier" \in llm /\ (Throw("verify") \/ Throw("reverify"))

\* The number of characters of the literal the source appends after the
\* slice: U+00E2, U+20AC, U+00A6.
EllipsisLen == 3

\* applyHeuristics: banned patterns are stripped (a match that is found
\* takes one character away), then a text longer than format.maxChars is
\* cut to its first maxChars - 1 characters and the literal is appended.
\* The texts of this specification carry no blank at either end, so the
\* final trim() leaves them as they are.
applyHeuristics(text, st, stripped) ==
    LET found == stripped /\ (text.jp \/ text.meta)
        length == IF found THEN text.len - 1 ELSE text.len
    IN  [text EXCEPT !.jp = text.jp /\ ~stripped,
                     !.meta = text.meta /\ ~stripped,
                     !.len = IF st.maxChars # 0 /\ length > st.maxChars
                             THEN (st.maxChars - 1) + EllipsisLen ELSE length]

\* The key `repair_${attempt}` of the timing record.
repairKey(k) == <<"repair_0", "repair_1", "repair_2", "repair_3">>[k + 1]

\* Repairer.repair resolves.
Repair ==
    /\ stage = "repair"
    /\ IF Len(verification.issues) = 0
       THEN current' = current
       ELSE IF "repairer" \notin llm
            THEN \E stripped \in BOOLEAN :
                   current' = applyHeuristics(current, settings, stripped)
            ELSE \E text \in Texts : current' = text
    /\ timing' = timing \cup {repairKey(attempt)}
    /\ stage' = "reverify"
    /\ UNCHANGED <<pairCondition, maxRepairs, judgeRuns, settings, llm, state, draft,
                   verification, attempt, runRecord, stateBuilds, runVars, limVars, expVars>>
    /\ calls' = Append(calls, "repair")
    /\ LET u == IF Len(verification.issues) > 0 /\ "repairer" \in llm
                THEN responseUsage ELSE NoUsage
       IN  /\ usage' = addUsage(usage, u)
           /\ spent' = addUsage(spent, u)
    /\ UNCHANGED passes


RepairThrow == "repairer" \in llm /\ Len(verification.issues) > 0 /\ Throw("repair")

\* The verifier.verify inside the loop resolves; attempt += 1 and the loop
\* test is evaluated again.
ReVerify ==
    /\ stage = "reverify"
    /\ \E out \in runLLM :
         /\ verification' = verify(current, settings, out.issues)
         /\ stage' = afterVerify(verify(current, settings, out.issues), attempt + 1)
         /\ passes' = Append(passes, passOf(verify(current, settings, out.issues), out.issues))
         /\ usage' = addUsage(usage, out.usageTokens)
         /\ spent' = addUsage(spent, out.spent)
    /\ attempt' = attempt + 1
    /\ UNCHANGED <<pairCondition, maxRepairs, judgeRuns, settings, llm, state, draft, current,
                   timing, runRecord, stateBuilds, runVars, limVars, expVars>>
    /\ calls' = Append(calls, "verify")

\* Judge.scoreWithLLM, as far as tokens go: the usage it returns adds up the
\* iterations whose output parsed (parsedRuns of them), and nothing without
\* a model; spent is what all the responses consumed.
judgeUsage(parsedRuns) ==
    IF "judge" \in llm THEN nTimes(parsedRuns, responseUsage) ELSE NoUsage

judgeSpent == IF "judge" \in llm THEN nTimes(iterations, responseUsage) ELSE NoUsage

\* The scores of a judge.score call, kept as the translation they were
\* computed from.
judgeScore(text) == [of |-> text]

\* hardScores: check id to passed.
hardScoresOf(v) == {<<v.hardChecks[i].id, v.hardChecks[i].passed>> : i \in 1..Len(v.hardChecks)}

\* Mutant of RunRecordOf: final.en is the draft.
RunRecordOf_finalDraft(total) ==
    [condition |-> pairCondition,
     draft |-> draft,
     final |-> draft,
     issues |-> verification.issues,
     hardChecks |-> verification.hardChecks,
     scores |-> [hard |-> hardScoresOf(verification), judge |-> judgeScore(current)],
     tokens |-> [prompt |-> total.prompt,
                 completion |-> total.completion,
                 total |-> total.prompt + total.completion],
     timing |-> timing \cup {"judge"},
     state |-> state,
     status |-> statusOf(verification)]

\* The RunRecord processSample returns, given the usage total.
RunRecordOf(total) ==
    [condition |-> pairCondition,
     draft |-> draft,
     final |-> current,
     issues |-> verification.issues,
     hardChecks |-> verification.hardChecks,
     scores |-> [hard |-> hardScoresOf(verification), judge |-> judgeScore(current)],
     tokens |-> [prompt |-> total.prompt,
                 completion |-> total.completion,
                 total |-> total.prompt + total.completion],
     timing |-> timing \cup {"judge"},
     state |-> state,
     status |-> statusOf(verification)]

\* judge.score resolves and the record is assembled and returned.
Judge ==
    /\ stage = "judge"
    /\ \E parsedRuns \in 0..iterations :
         LET total == addUsage(usage, judgeUsage(parsedRuns))
         IN  /\ usage' = total
             /\ runRecord' = RunRecordOf(total)
    /\ spent' = addUsage(spent, judgeSpent)
    /\ timing' = timing \cup {"judge"}
    /\ stage' = "returned"
    /\ UNCHANGED <<pairCondition, maxRepairs, judgeRuns, settings, llm, state, draft, current,
                   verification, attempt, stateBuilds, runVars, limVars, expVars>>
    /\ calls' = Append(calls, "judge")
    /\ UNCHANGED passes


JudgeThrow == "judge" \in llm /\ Throw("judge")

RunIdle ==
    /\ dataset = <<>>
    /\ conditions = <<>>
    /\ hasOnRecord = FALSE
    /\ concurrency = 1
    /\ pc = <<>>
    /\ rec = <<>>
    /\ prev = <<>>
    /\ writeChain = 0
    /\ file = <<>>
    /\ sink = <<>>
    /\ runStatus = "idle"
    /\ faults = 0

DiskIdle ==
    /\ disk = <<>>
    /\ clock = 0
    /\ usePc = <<>>
    /\ useReq = <<>>
    /\ useGot = <<>>
    /\ written = <<>>

MockIdle ==
    /\ scenario = <<>>
    /\ mockPc = "idle"
    /\ userMessage = <<>>
    /\ mockDraft = <<>>
    /\ mockRecord = <<>>

JudgeIdle ==
    /\ runs = 0
    /\ judgeLlm = FALSE
    /\ judgeInput = <<>>
    /\ scores = <<>>
    /\ judgePc = "idle"
    /\ judgeResult = <<>>

CancelIdle == cancelRequested = FALSE

MainIdle ==
    /\ mainInput = <<>>
    /\ mainPc = "idle"
    /\ outputFile = <<>>
    /\ cacheDir = FALSE
    /\ exitCode = 0

NormIdle ==
    /\ defaults = <<>>
    /\ sampleConstraints = <<>>
    /\ normPc = "idle"
    /\ normalized = <<>>

StartIdle ==
    /\ startInput = <<>>
    /\ storedStatus = "draft"
    /\ reqPc = <<>>
    /\ reqSeen = <<>>
    /\ launches = <<>>
    /\ ended = {}

ToolsIdle ==
    DiskIdle /\ MockIdle /\ JudgeIdle /\ CancelIdle /\ MainIdle /\ NormIdle /\ StartIdle

ClientIdle ==
    /\ cache = <<>>
    /\ callKey = <<>>
    /\ callOut = <<>>
    /\ network = <<>>
    /\ ToolsIdle

LimIdle ==
    /\ ClientIdle
    /\ limOptions = [rpm |-> 0, tpm |-> 0]
    /\ requestTimes = <<>>
    /\ tokenHistory = <<>>
    /\ now = 0
    /\ callPc = <<>>
    /\ callClient = <<>>
    /\ callTokens = <<>>
    /\ wakeAt = <<>>
    /\ admitted = <<>>

ExpIdle ==
    /\ variant = "experimentRunner"
    /\ expInput = <<>>
    /\ expStatus = "draft"
    /\ startPc = "idle"
    /\ bgPc = "none"
    /\ bgOutcome = "none"
    /\ recPc = <<>>
    /\ prevWrite = <<>>
    /\ storeChain = 0
    /\ rows = <<>>
    /\ runOutcome = "none"
    /\ storeFaults = 0

InitPairSpec == RunIdle /\ InitPair /\ LimIdle /\ ExpIdle

NextPair ==
    \/ Normalize
    \/ NormalizeThrow
    \/ BuildState
    \/ BuildStateThrow
    \/ Translate
    \/ TranslateThrow
    \/ Verify
    \/ VerifyThrow
    \/ Repair
    \/ RepairThrow
    \/ ReVerify
    \/ Judge
    \/ JudgeThrow

SpecPair == InitPairSpec /\ [][NextPair]_vars


\* ------------------------------------------------------------------------
\* RateLimiter (src/llm/rateLimiter.ts) behind the clients of one runner
\* ------------------------------------------------------------------------

\* The components the PipelineRunner constructor creates a client for.
Components ==
    {"translator", "translatorWithState", "stateBuilder", "verifier", "repairer", "judge"}

\* createLLMClient: `new RateLimiter(options.rateLimiter)` on every call, so
\* each client is scheduled by a limiter of its own.
limiterOf(client) == client

Limiters == {limiterOf(client) : client \in Components}

Callers == 1..NumCallers

\* Declared token costs: payload.max_tokens ?? 512.
TokenCosts == {DefaultTokens, DefaultTokens \div 2}

Min(a, b) == IF a <= b THEN a ELSE b
Max(a, b) == IF a >= b THEN a ELSE b

\* RateLimiter.prune, on one list of entries stamped with `timestamp`.
RECURSIVE pruneList(_, _)
pruneList(entries, windowStart) ==
    IF Len(entries) > 0 /\ Head(entries).timestamp < windowStart
    THEN pruneList(Tail(entries), windowStart)
    ELSE entries

prune(entries, t) == pruneList(entries, t - WindowMs)

RECURSIVE SumTokens(_)
SumTokens(entries) ==
    IF entries = <<>> THEN 0 ELSE Head(entries).tokens + SumTokens(Tail(entries))

\* RateLimiter.totalTokens
totalTokens(history) == SumTokens(history)

rpmOk(times) == limOptions.rpm = 0 \/ Len(times) < limOptions.rpm
tpmOk(history, tokens) ==
    limOptions.tpm = 0 \/ totalTokens(history) + tokens <= limOptions.tpm

\* The sleep computed by waitForSlot when the call is not admitted.
waitMs(times, history, t) ==
    LET nextTokens == IF Len(history) > 0 /\ Head(history).timestamp # 0
                      THEN Head(history).timestamp + WindowMs
                      ELSE t + TokenPollMs
        nextRequest == IF Len(times) > 0 THEN Head(times).timestamp + WindowMs ELSE 0
        waitUntil == Min(IF nextRequest # 0 THEN nextRequest ELSE nextTokens, nextTokens)
    IN  Max(waitUntil - t, MinWaitMs)

InitLimiter ==
    /\ limOptions \in [rpm : 0..MaxRpm, tpm : {k * DefaultTokens : k \in 0..MaxTpmUnits}]
    /\ requestTimes = [l \in Limiters |-> <<>>]
    /\ tokenHistory = [l \in Limiters |-> <<>>]
    /\ now = TickMs
    /\ callPc = [c \in Callers |-> "idle"]
    /\ callClient = [c \in Callers |-> "translator"]
    /\ callTokens = [c \in Callers |-> DefaultTokens]
    /\ wakeAt = [c \in Callers |-> 0]
    /\ admitted = <<>>

\* One pass of the for(;;) loop of waitForSlot for caller c on limiter l:
\* prune, test both budgets, then return or go to sleep.
waitForSlot(c, l, tokens) ==
    IF limOptions.rpm = 0 /\ limOptions.tpm = 0
    THEN /\ callPc' = [callPc EXCEPT ![c] = "admitted"]
         /\ UNCHANGED <<requestTimes, tokenHistory, wakeAt>>
    ELSE LET times == prune(requestTimes[l], now)
             history == prune(tokenHistory[l], now)
         IN  /\ requestTimes' = [requestTimes EXCEPT ![l] = times]
             /\ tokenHistory' = [tokenHistory EXCEPT ![l] = history]
             /\ IF rpmOk(times) /\ tpmOk(history, tokens)
                THEN /\ callPc' = [callPc EXCEPT ![c] = "admitted"]
                     /\ UNCHANGED wakeAt
                ELSE /\ callPc' = [callPc EXCEPT ![c] = "sleeping"]
                     /\ wakeAt' = [wakeAt EXCEPT ![c] = now + waitMs(times, history, now)]

\* generate() of a client misses the cache and calls limiter.schedule.
Schedule(c) ==
    /\ callPc[c] = "idle"
    /\ \E client \in Components, tokens \in TokenCosts :
         /\ callClient' = [callClient EXCEPT ![c] = client]
         /\ callTokens' = [callTokens EXCEPT ![c] = tokens]
         /\ waitForSlot(c, limiterOf(client), tokens)
    /\ UNCHANGED <<limOptions, now, admitted, runVars, pairVars, expVars, cliVars>>

\* The sleep() timer of a waiting caller fires: next pass of the loop.
Wake(c) ==
    /\ callPc[c] = "sleeping"
    /\ now >= wakeAt[c]
    /\ waitForSlot(c, limiterOf(callClient[c]), callTokens[c])
    /\ UNCHANGED <<limOptions, now, callClient, callTokens, admitted, runVars, pairVars, expVars, cliVars>>

\* schedule() resumes after `await this.waitForSlot(tokens)`: the admission
\* is recorded and fn is called.
Admit(c) ==
    /\ callPc[c] = "admitted"
    /\ LET l == limiterOf(callClient[c])
       IN  /\ requestTimes' =
                [requestTimes EXCEPT ![l] = Append(@, [timestamp |-> now])]
           /\ tokenHistory' =
                IF limOptions.tpm # 0
                THEN [tokenHistory EXCEPT
                        ![l] = Append(@, [timestamp |-> now, tokens |-> callTokens[c]])]
                ELSE tokenHistory
    /\ admitted' = Append(admitted, [caller |-> c, client |-> callClient[c],
                                     timestamp |-> now, tokens |-> callTokens[c]])
    /\ callPc' = [callPc EXCEPT ![c] = "running"]
    /\ UNCHANGED <<limOptions, now, callClient, callTokens, wakeAt, runVars, pairVars, expVars, cliVars>>

\* fn() settles.
Finish(c) ==
    /\ callPc[c] = "running"
    /\ callPc' = [callPc EXCEPT ![c] = "done"]
    /\ UNCHANGED <<limOptions, requestTimes, tokenHistory, now, callClient, callTokens,
                   wakeAt, admitted, runVars, pairVars, expVars, cliVars>>

\* Time passes. A caller resumed from `await waitForSlot` runs as a
\* microtask, before any timer or I/O callback, so the clock stands still
\* while one is pending.
Tick ==
    /\ now < TickMs * MaxTicks
    /\ \A c \in Callers : callPc[c] # "admitted"
    /\ now' = now + TickMs
    /\ UNCHANGED <<limOptions, requestTimes, tokenHistory, callPc, callClient,
                   callTokens, wakeAt, admitted, runVars, pairVars, expVars, cliVars>>

InitLimiterSpec == RunIdle /\ PairIdle /\ InitLimiter /\ ClientIdle /\ ExpIdle

NextLimiter ==
    \/ \E c \in Callers : Schedule(c)
    \/ \E c \in Callers : Wake(c)
    \/ \E c \in Callers : Admit(c)
    \/ \E c \in Callers : Finish(c)
    \/ Tick

SpecLimiter == InitLimiterSpec /\ [][NextLimiter]_vars

\* ------------------------------------------------------------------------
\* The rate limiter as time goes on without end
\* ------------------------------------------------------------------------

\* The limiter reads Date.now() only to compare it with the timestamps it
\* stored and with the end of a sleep. Here the clock reading stays at
\* LiveNow and the passing of TickMs moves every stored time back by TickMs
\* instead; a timestamp older than the window by a tick or more, and a timer
\* that is due, are not moved further, since the code treats all of them alike.
LiveNow == WindowMs + 2 * TickMs

agedStamp(t) == Max(t - TickMs, LiveNow - WindowMs - TickMs)

agedTimer(t) == Max(t - TickMs, LiveNow - TickMs)

InitLimiterLive ==
    /\ limOptions \in [rpm : 0..MaxRpm,
                       tpm : {k * (DefaultTokens \div 2) : k \in 0..MaxTpmUnits}]
    /\ requestTimes = [l \in Limiters |-> <<>>]
    /\ tokenHistory = [l \in Limiters |-> <<>>]
    /\ now = LiveNow
    /\ callPc = [c \in Callers |-> "idle"]
    /\ callClient = [c \in Callers |-> "translator"]
    /\ callTokens = [c \in Callers |-> DefaultTokens]
    /\ wakeAt = [c \in Callers |-> 0]
    /\ admitted = <<>>

\* TickMs of time pass. As in Tick, a caller resumed from `await
\* waitForSlot` runs before any timer fires.
Elapse ==
    /\ \A c \in Callers : callPc[c] # "admitted"
    /\ requestTimes' =
         [l \in Limiters |->
            [i \in 1..Len(requestTimes[l]) |->
               [timestamp |-> agedStamp(requestTimes[l][i].timestamp)]]]
    /\ tokenHistory' =
         [l \in Limiters |->
            [i \in 1..Len(tokenHistory[l]) |->
               [timestamp |-> agedStamp(tokenHistory[l][i].timestamp),
                tokens |-> tokenHistory[l][i].tokens]]]
    /\ wakeAt' = [c \in Callers |->
                    IF callPc[c] = "sleeping" THEN agedTimer(wakeAt[c]) ELSE wakeAt[c]]
    /\ UNCHANGED <<limOptions, now, callPc, callClient, callTokens, admitted,
                   runVars, pairVars, expVars, cliVars>>

InitLimiterLiveSpec == RunIdle /\ PairIdle /\ InitLimiterLive /\ ClientIdle /\ ExpIdle

NextLimiterLive ==
    \/ \E c \in Callers : Schedule(c)
    \/ \E c \in Callers : Wake(c)
    \/ \E c \in Callers : Admit(c)
    \/ \E c \in Callers : Finish(c)
    \/ Elapse

\* Timers fire, resumed callers run and time passes: each is weakly fair.
\* Nothing obliges a caller to call schedule().
FairLimiter ==
    /\ WF_vars(Elapse)
    /\ \A c \in Callers : WF_vars(Wake(c)) /\ WF_vars(Admit(c)) /\ WF_vars(Finish(c))

SpecLimiterLive == InitLimiterLiveSpec /\ [][NextLimiterLive]_vars /\ FairLimiter

\* ------------------------------------------------------------------------
\* OpenAIChatClient.generate: disk cache, then rate limiter, then provider
\* ------------------------------------------------------------------------

\* Request keys: stableHash([payload, provider]).
Keys == {"k1", "k2"}

\* Responses: "r1" was stored by an earlier run, "r2" is what the provider
\* answers now.
Responses == {"r1", "r2"}

providerResponse(key) == "r2"

\* An entry file: missing, holding a response, not parseable ("corrupt"), or
\* opened by writeFile and not yet written in full ("partial").
CacheEntries == {"absent", "corrupt", "partial"} \cup Responses

\* Budgets of the client's limiter in this specification.
ClientLimits == { [rpm |-> 0, tpm |-> 0], [rpm |-> 1, tpm |-> 0],
                  [rpm |-> 0, tpm |-> DefaultTokens] }

NoResponse == [source |-> "none", value |-> "none"]

InitClient ==
    /\ limOptions \in ClientLimits
    /\ requestTimes = [l \in Limiters |-> <<>>]
    /\ tokenHistory = [l \in Limiters |-> <<>>]
    /\ now = TickMs
    /\ callPc = [c \in Callers |-> "idle"]
    /\ callClient = [c \in Callers |-> "translator"]
    /\ callTokens = [c \in Callers |-> DefaultTokens]
    /\ wakeAt = [c \in Callers |-> 0]
    /\ admitted = <<>>
    /\ cache \in [Keys -> {e \in CacheEntries \ {"partial"} :
                               \A k \in Keys : e # providerResponse(k)}]
    /\ callKey = [c \in Callers |-> "k1"]
    /\ callOut = [c \in Callers |-> NoResponse]
    /\ network = <<>>
    /\ ToolsIdle

\* DiskCache.get: the value of the entry, undefined ("absent") when the file
\* does not exist; a file that does not parse makes it throw.
cacheGet(entries, key) ==
    IF entries[key] \in {"corrupt", "partial"} THEN [threw |-> TRUE, value |-> "none"]
    ELSE [threw |-> FALSE, value |-> entries[key]]

\* Mutant of afterCacheGet: a hit is sent on to the limiter like a miss.
afterCacheGet_alwaysMiss(got) == IF got.threw THEN "done" ELSE "missed"

\* generate() after `await cache.get(...)`: a thrown error or a cached
\* response ends the call, a miss goes on to limiter.schedule.
afterCacheGet(got) ==
    IF got.threw THEN "done"
    ELSE IF got.value # "absent" THEN "done"
    ELSE "missed"

\* The keys a caller may ask for. Keys are interchangeable and the initial
\* cache ranges over every assignment, so the first caller's request is the
\* one named "k1".
keysOf(c) == IF c = 1 THEN {"k1"} ELSE Keys

\* generate() is called: the payload is built and the cache is read.
Generate(c) ==
    /\ callPc[c] = "idle"
    /\ \E key \in keysOf(c) :
         LET got == cacheGet(cache, key)
         IN  /\ callKey' = [callKey EXCEPT ![c] = key]
             /\ callPc' = [callPc EXCEPT ![c] = afterCacheGet(got)]
             /\ callOut' = [callOut EXCEPT ![c] =
                   IF got.threw THEN [source |-> "error", value |-> "none"]
                   ELSE IF got.value # "absent"
                        THEN [source |-> "cache", value |-> got.value]
                        ELSE NoResponse]
    /\ UNCHANGED <<limOptions, requestTimes, tokenHistory, now, callClient, callTokens,
                   wakeAt, admitted, cache, network, toolVars, runVars, pairVars,
                   expVars>>

\* After a miss: limiter.schedule(payload.max_tokens ?? 512, exec).
ScheduleMiss(c) ==
    /\ callPc[c] = "missed"
    /\ waitForSlot(c, limiterOf(callClient[c]), callTokens[c])
    /\ UNCHANGED <<limOptions, now, callClient, callTokens, admitted, cliVars,
                   runVars, pairVars, expVars>>

\* exec() resolves: the provider answered ok, and cache.set opens the entry
\* file for writing.
Exec(c) ==
    /\ callPc[c] = "running"
    /\ cache' = [cache EXCEPT ![callKey[c]] = "partial"]
    /\ network' = Append(network, [caller |-> c, key |-> callKey[c], ok |-> TRUE])
    /\ callPc' = [callPc EXCEPT ![c] = "writing"]
    /\ UNCHANGED <<limOptions, requestTimes, tokenHistory, now, callClient, callTokens,
                   wakeAt, admitted, callKey, callOut, toolVars, runVars, pairVars,
                   expVars>>

\* cache.set: writeFile completes, and generate() returns the response.
CacheSet(c) ==
    /\ callPc[c] = "writing"
    /\ LET v == providerResponse(callKey[c])
       IN  /\ cache' = [cache EXCEPT ![callKey[c]] = v]
           /\ callOut' = [callOut EXCEPT ![c] = [source |-> "network", value |-> v]]
    /\ callPc' = [callPc EXCEPT ![c] = "done"]
    /\ UNCHANGED <<limOptions, requestTimes, tokenHistory, now, callClient, callTokens,
                   wakeAt, admitted, callKey, network, toolVars, runVars, pairVars,
                   expVars>>

\* Mutant of ExecFail: the error body is stored as if it were a response.
ExecFail_caches(c) ==
    /\ callPc[c] = "running"
    /\ callOut' = [callOut EXCEPT ![c] = [source |-> "error", value |-> "none"]]
    /\ cache' = [cache EXCEPT ![callKey[c]] = providerResponse(callKey[c])]
    /\ network' = Append(network, [caller |-> c, key |-> callKey[c], ok |-> FALSE])
    /\ callPc' = [callPc EXCEPT ![c] = "done"]
    /\ UNCHANGED <<limOptions, requestTimes, tokenHistory, now, callClient, callTokens,
                   wakeAt, admitted, callKey, toolVars, runVars, pairVars, expVars>>

\* exec(): the provider answers with a non-ok status and LLMError is thrown.
ExecFail(c) ==
    /\ callPc[c] = "running"
    /\ callOut' = [callOut EXCEPT ![c] = [source |-> "error", value |-> "none"]]
    /\ network' = Append(network, [caller |-> c, key |-> callKey[c], ok |-> FALSE])
    /\ callPc' = [callPc EXCEPT ![c] = "done"]
    /\ UNCHANGED <<limOptions, requestTimes, tokenHistory, now, callClient, callTokens,
                   wakeAt, admitted, callKey, cache, toolVars, runVars, pairVars,
                   expVars>>

InitClientSpec == RunIdle /\ PairIdle /\ InitClient /\ ExpIdle

NextClient ==
    \/ \E c \in Callers : Generate(c)
    \/ \E c \in Callers : ScheduleMiss(c)
    \/ \E c \in Callers : Wake(c)
    \/ \E c \in Callers : Admit(c)
    \/ \E c \in Callers : Exec(c)
    \/ \E c \in Callers : CacheSet(c)
    \/ \E c \in Callers : ExecFail(c)
    \/ Tick

SpecClient == InitClientSpec /\ [][NextClient]_vars

\* ------------------------------------------------------------------------
\* DiskCache: get and set on the entry files of one cache directory
\* ------------------------------------------------------------------------

CacheUsers == 1..NumCacheUsers

\* CacheEntry: what set() serialises into the entry file.
CacheEntry(key, value, time) == [key |-> key, value |-> value, createdAt |-> time]

NoEntry == CacheEntry("none", "none", 0)

\* The content of an entry file: missing, text that JSON.parse rejects (also
\* a file writeFile has opened and not yet filled), or a serialised entry.
NoFile == [state |-> "absent", entry |-> NoEntry]
BadFile == [state |-> "unparseable", entry |-> NoEntry]
fileOf(entry) == [state |-> "json", entry |-> entry]

NoRequest == [op |-> "none", key |-> "none", entry |-> NoEntry]
NoGot == [threw |-> FALSE, value |-> "none"]

InitDisk ==
    /\ disk \in [Keys -> {NoFile, BadFile} \cup {fileOf(CacheEntry(k, "r1", 0)) : k \in Keys}]
    /\ \A k \in Keys : disk[k].state = "json" => disk[k].entry.key = k
    /\ clock = 1
    /\ usePc = [u \in CacheUsers |-> "idle"]
    /\ useReq = [u \in CacheUsers |-> NoRequest]
    /\ useGot = [u \in CacheUsers |-> NoGot]
    /\ written = <<>>

\* DiskCache.get: ENOENT gives undefined, any other error is rethrown, and a
\* parsed file gives its value.
DiskCache_get(files, key) ==
    IF files[key].state = "absent" THEN [threw |-> FALSE, value |-> "undefined"]
    ELSE IF files[key].state = "unparseable" THEN [threw |-> TRUE, value |-> "none"]
    ELSE [threw |-> FALSE, value |-> files[key].entry.value]

\* A user calls get(keyParts).
Get(u) ==
    /\ usePc[u] = "idle"
    /\ \E key \in Keys :
         /\ useReq' = [useReq EXCEPT ![u] = [op |-> "get", key |-> key, entry |-> NoEntry]]
         /\ useGot' = [useGot EXCEPT ![u] = DiskCache_get(disk, key)]
    /\ usePc' = [usePc EXCEPT ![u] = "done"]
    /\ UNCHANGED <<disk, clock, written, mockVars, judgeVars, cancelVars, mainVars, normVars, startVars, clientOnlyVars,
                   limOnlyVars, runVars, pairVars, expVars>>

\* DiskCache.set builds {key, value, createdAt: new Date().toISOString()}.
DiskCache_set(key, value, time) == CacheEntry(key, value, time)

\* A user calls set(keyParts, value): the entry is built and writeFile opens
\* the file, which truncates it.
SetOpen(u) ==
    /\ usePc[u] = "idle"
    /\ \E key \in Keys, value \in Responses :
         /\ useReq' = [useReq EXCEPT ![u] =
               [op |-> "set", key |-> key, entry |-> DiskCache_set(key, value, clock)]]
         /\ disk' = [disk EXCEPT ![key] = BadFile]
    /\ usePc' = [usePc EXCEPT ![u] = "writing"]
    /\ UNCHANGED <<clock, useGot, written, mockVars, judgeVars, cancelVars, mainVars, normVars, startVars, clientOnlyVars,
                   limOnlyVars, runVars, pairVars, expVars>>

\* writeFile completes: the file holds stringify(entry).
SetWrite(u) ==
    /\ usePc[u] = "writing"
    /\ disk' = [disk EXCEPT ![useReq[u].key] = fileOf(useReq[u].entry)]
    /\ written' = Append(written, [key |-> useReq[u].key, content |-> fileOf(useReq[u].entry)])
    /\ usePc' = [usePc EXCEPT ![u] = "done"]
    /\ UNCHANGED <<clock, useReq, useGot, mockVars, judgeVars, cancelVars, mainVars, normVars, startVars, clientOnlyVars,
                   limOnlyVars, runVars, pairVars, expVars>>

\* Time passes.
ClockTick ==
    /\ clock < MaxClock
    /\ clock' = clock + 1
    /\ UNCHANGED <<disk, usePc, useReq, useGot, written, mockVars, judgeVars, cancelVars, mainVars, normVars, startVars, clientOnlyVars,
                   limOnlyVars, runVars, pairVars, expVars>>

LimOnlyIdle ==
    /\ limOptions = [rpm |-> 0, tpm |-> 0]
    /\ requestTimes = <<>>
    /\ tokenHistory = <<>>
    /\ now = 0
    /\ callPc = <<>>
    /\ callClient = <<>>
    /\ callTokens = <<>>
    /\ wakeAt = <<>>
    /\ admitted = <<>>
    /\ cache = <<>>
    /\ callKey = <<>>
    /\ callOut = <<>>
    /\ network = <<>>

InitCacheSpec ==
    RunIdle /\ PairIdle /\ LimOnlyIdle /\ InitDisk /\ MockIdle /\ JudgeIdle /\ CancelIdle
    /\ MainIdle /\ NormIdle /\ StartIdle /\ ExpIdle

NextCache ==
    \/ \E u \in CacheUsers : Get(u)
    \/ \E u \in CacheUsers : SetOpen(u)
    \/ \E u \in CacheUsers : SetWrite(u)
    \/ ClockTick

SpecCache == InitCacheSpec /\ [][NextCache]_vars

\* ------------------------------------------------------------------------
\* One pair translated by the mock provider
\* ------------------------------------------------------------------------

\* A string is a sequence of atoms: Japanese words (written here in Latin
\* letters), the full-width marks U+3002, U+3001, U+FF01 and U+FF1F, ASCII
\* words and marks, and the blanks " " and "\n".
JaWords == {"kagi-wa-koko", "kagi", "konnichiwa", "sekai"}

Blanks == {" ", "\n"}

\* The sample texts: S2's, S1's, and one that is English already.
KeyText == <<"kagi-wa-koko", "U+3002">>
HelloText == <<"konnichiwa", "U+3001", "sekai", "U+3002">>
EnglishText == <<"The", " ", "Key", "U+FF01">>

SampleTexts == {KeyText, HelloText, EnglishText}

GlossaryEntry(ja, en, strict) == [ja |-> ja, en |-> en, strict |-> strict]

GlossaryInputs ==
    { <<>>, <<GlossaryEntry("kagi", "Key", TRUE)>>, <<GlossaryEntry("kagi", "Key", FALSE)>> }

\* The translator's template: DEFAULT_TRANSLATOR_TEMPLATE, or a configured
\* template that consists of {{text}} alone.
Templates == {"default", "textOnly"}

Scenarios ==
    [text : SampleTexts, glossary : GlossaryInputs, template : Templates,
     noDisallowedJapanese : BOOLEAN]

InitMock ==
    /\ scenario \in Scenarios
    /\ mockPc = "start"
    /\ userMessage = <<>>
    /\ mockDraft = <<>>
    /\ mockRecord = NoPairRecord

\* One line of the glossary list: `- ${ja} => ${en}` and " (strict)".
glossaryLine(entry) ==
    <<"-", " ", entry.ja, " ", "=>", " ", entry.en>>
    \o (IF entry.strict THEN <<" ", "(strict)">> ELSE <<>>)

RECURSIVE glossaryLines(_)
glossaryLines(glossary) ==
    IF glossary = <<>> THEN <<>>
    ELSE <<"\n">> \o glossaryLine(Head(glossary)) \o glossaryLines(Tail(glossary))

\* constraintsToMarkdown for constraints that set targetLang and a glossary.
constraintsToMarkdown(glossary) ==
    <<"targetLang: en">>
    \o (IF glossary # <<>> THEN <<"\n", "glossary:">> \o glossaryLines(glossary) ELSE <<>>)

\* renderTemplate over the translator's template; the sample has no context
\* and the condition builds no state.
renderTemplate(template, text, glossary) ==
    IF template = "textOnly" THEN text
    ELSE <<"You translate Japanese to natural English that follows every constraint.",
           "\n", "Return only the translation text.",
           "\n", "# Source (Japanese)", "\n">>
         \o text
         \o <<"\n", "# Context", "\n", "(none)",
              "\n", "# State", "\n", "not provided",
              "\n", "# Constraints", "\n">>
         \o constraintsToMarkdown(glossary)
         \o <<"\n">>

\* The four replacements of rudimentaryTranslate.
toAscii(atom) ==
    CASE atom = "U+3002" -> "."
      [] atom = "U+3001" -> ","
      [] atom = "U+FF01" -> "!"
      [] atom = "U+FF1F" -> "?"
      [] OTHER -> atom

RECURSIVE trimStart(_)
trimStart(text) ==
    IF text # <<>> /\ Head(text) \in Blanks THEN trimStart(Tail(text)) ELSE text

RECURSIVE trimEnd(_)
trimEnd(text) ==
    IF text # <<>> /\ text[Len(text)] \in Blanks
    THEN trimEnd(SubSeq(text, 1, Len(text) - 1)) ELSE text

trim(text) == trimEnd(trimStart(text))

\* .replace(/\s+/g, " ")
RECURSIVE collapse(_)
collapse(text) ==
    IF text = <<>> THEN <<>>
    ELSE IF Head(text) \in Blanks THEN <<" ">> \o collapse(trimStart(text))
    ELSE <<Head(text)>> \o collapse(Tail(text))

rudimentaryTranslate(text) ==
    collapse(trim([i \in 1..Len(text) |-> toAscii(text[i])]))

\* containsJapanese: the class U+3040..U+30FF, U+4E00..U+9FAF holds kana and
\* ideographs, not the full-width marks.
containsJapanese(atom) == atom \in JaWords

\* String.prototype.includes for a term that is one atom.
includes(text, term) == \E i \in 1..Len(text) : text[i] = term

\* HardCheckEngine.run on a text of atoms, with an empty whitelist, no length
\* limit and keepLineBreaks unset.
hardChecksOn(text, sc) ==
    (IF sc.noDisallowedJapanese
        THEN <<Check("noDisallowedJapanese",
                     ~\E i \in 1..Len(text) : containsJapanese(text[i]))>>
        ELSE <<>>)
    \o <<Check("glossaryStrictMatches",
               \A i \in 1..Len(sc.glossary) :
                   sc.glossary[i].strict => includes(text, sc.glossary[i].en))>>
    \o <<Check("noMetaTalk", ~includes(text, "as an ai"))>>

\* Verifier.verify without a reviewing model.
verifyOn(text, sc) ==
    LET hardChecks == hardChecksOn(text, sc)
        failed == SelectSeq(hardChecks, LAMBDA check : ~check.passed)
    IN  [issues |-> MapSeq(hardIssue, failed), hardChecks |-> hardChecks]

\* Translator.translate renders the user message.
RenderPrompt ==
    /\ mockPc = "start"
    /\ userMessage' = renderTemplate(scenario.template, scenario.text, scenario.glossary)
    /\ mockPc' = "rendered"
    /\ UNCHANGED <<scenario, mockDraft, mockRecord, diskVars, judgeVars, cancelVars, mainVars, normVars, startVars, clientOnlyVars,
                   limOnlyVars, runVars, pairVars, expVars>>

\* MockLLMClient.generate answers with the last user message, rewritten, and
\* the translator trims it.
MockGenerate ==
    /\ mockPc = "rendered"
    /\ mockDraft' = trim(rudimentaryTranslate(userMessage))
    /\ mockPc' = "translated"
    /\ UNCHANGED <<scenario, userMessage, mockRecord, diskVars, judgeVars, cancelVars, mainVars, normVars, startVars, clientOnlyVars,
                   limOnlyVars, runVars, pairVars, expVars>>

\* verifier.verify, judge.score, and the record is returned (condition A0).
MockReturn ==
    /\ mockPc = "translated"
    /\ LET v == verifyOn(mockDraft, scenario)
       IN  mockRecord' = [draft |-> mockDraft,
                          final |-> mockDraft,
                          issues |-> v.issues,
                          hardChecks |-> v.hardChecks,
                          status |-> statusOf(v)]
    /\ mockPc' = "returned"
    /\ UNCHANGED <<scenario, userMessage, mockDraft, diskVars, judgeVars, cancelVars, mainVars, normVars, startVars, clientOnlyVars,
                   limOnlyVars, runVars, pairVars, expVars>>

InitMockSpec ==
    RunIdle /\ PairIdle /\ LimOnlyIdle /\ DiskIdle /\ InitMock /\ JudgeIdle /\ CancelIdle
    /\ MainIdle /\ NormIdle /\ StartIdle /\ ExpIdle

NextMock ==
    \/ RenderPrompt
    \/ MockGenerate
    \/ MockReturn

SpecMock == InitMockSpec /\ [][NextMock]_vars

\* ------------------------------------------------------------------------
\* Judge.scoreWithLLM: the scoring iterations and their reduction
\* ------------------------------------------------------------------------

\* Scores are fixed-point numbers: One stands for 1.0.
One == 400

Dimensions == {"adequacy", "fluency", "constraintCompliance", "styleFit", "overall"}

ScoreBreakdown(adequacy, fluency, constraintCompliance, styleFit, overall) ==
    [adequacy |-> adequacy, fluency |-> fluency,
     constraintCompliance |-> constraintCompliance, styleFit |-> styleFit,
     overall |-> overall]

\* What the judging model may answer: a parsed object, by the value of each
\* field (a missing field reads as 0), or text that JSON.parse rejects.
Unparseable == [parses |-> FALSE, fields |-> ScoreBreakdown(0, 0, 0, 0, 0)]

Reply(adequacy, fluency, constraintCompliance, styleFit, overall) ==
    [parses |-> TRUE,
     fields |-> ScoreBreakdown(adequacy, fluency, constraintCompliance, styleFit, overall)]

Replies ==
    { Unparseable,
      Reply(One, One, One, One, One),
      Reply(One + 200, 0 - 80, 200, 0, 360),
      Reply(120, 320, 240, 280, 200),
      Reply(0, 0, 0, 0, 4000) }

\* What heuristicScore reads: the reference's and the translation's tokens,
\* the tokens they share, the translation's length and whether it holds a
\* Latin letter.
JudgeInputs ==
    { [referenceTokens |-> 0, translationTokens |-> 2, common |-> 0,
       length |-> 9, latin |-> TRUE],
      [referenceTokens |-> 4, translationTokens |-> 3, common |-> 3,
       length |-> 250, latin |-> TRUE],
      [referenceTokens |-> 0, translationTokens |-> 0, common |-> 0,
       length |-> 0, latin |-> FALSE] }

InitJudge ==
    /\ runs \in 1..MaxJudgeRuns
    /\ judgeLlm \in BOOLEAN
    /\ judgeInput \in JudgeInputs
    /\ scores = <<>>
    /\ judgePc = "start"
    /\ judgeResult = ScoreBreakdown(0, 0, 0, 0, 0)

\* clamp01 of utils/stats.
clamp01(x) == IF x < 0 THEN 0 ELSE IF x > One THEN One ELSE x

\* The values of a sequence in ascending order.
RECURSIVE sorted(_)
sorted(values) ==
    IF values = <<>> THEN <<>>
    ELSE LET least == CHOOSE i \in 1..Len(values) :
                          \A j \in 1..Len(values) : values[i] <= values[j]
             others == [k \in 1..(Len(values) - 1) |->
                          IF k < least THEN values[k] ELSE values[k + 1]]
         IN  <<values[least]>> \o sorted(others)

\* median of utils/stats: the middle value, or the mean of the two middle
\* values of an even number of values.
median(values) ==
    LET ordered == sorted(values)
        n == Len(ordered)
    IN  IF n = 0 THEN 0
        ELSE IF n % 2 = 1 THEN ordered[(n + 1) \div 2]
        ELSE (ordered[n \div 2] + ordered[n \div 2 + 1]) \div 2

\* heuristicScore, in fixed point.
heuristicScore(in) ==
    LET adequacy ==
            IF in.referenceTokens # 0
            THEN (in.common * One) \div in.referenceTokens
            ELSE Min(One, (in.translationTokens * One) \div Max(in.referenceTokens, 5))
        fluency == IF in.latin THEN 280 + Min(120, (in.length * One) \div 200) ELSE 120
        constraintCompliance == 200 + Min(200, IF in.length # 0 THEN 80 ELSE 0)
        styleFit == 240
        overall == clamp01((adequacy * 40 + fluency * 20 + constraintCompliance * 25
                            + styleFit * 15) \div 100)
    IN  ScoreBreakdown(clamp01(adequacy), clamp01(fluency),
                       clamp01(constraintCompliance), clamp01(styleFit), overall)

\* The breakdown pushed for a reply that parsed: every field clamped.
parsedScore(fields) == [d \in Dimensions |-> clamp01(fields[d])]

\* Math.max(1, this.runs)
judgeIterations == Max(1, runs)

valuesOf(breakdowns, d) == [i \in 1..Len(breakdowns) |-> breakdowns[i][d]]

\* Without a model scoreWithLLM returns the heuristic score at once.
JudgeHeuristic ==
    /\ judgePc = "start"
    /\ ~judgeLlm
    /\ judgeResult' = heuristicScore(judgeInput)
    /\ judgePc' = "done"
    /\ UNCHANGED <<runs, judgeLlm, judgeInput, scores, diskVars, mockVars,
                   cancelVars, mainVars, normVars, startVars, clientOnlyVars, limOnlyVars, runVars, pairVars, expVars>>

\* One iteration of the loop: llm.generate resolves and a breakdown is
\* pushed, the clamped fields or, when the output does not parse, the
\* heuristic score.
JudgeIterate ==
    /\ judgePc \in {"start", "loop"}
    /\ judgeLlm
    /\ Len(scores) < judgeIterations
    /\ \E reply \in Replies :
         scores' = Append(scores, IF reply.parses THEN parsedScore(reply.fields)
                                  ELSE heuristicScore(judgeInput))
    /\ judgePc' = "loop"
    /\ UNCHANGED <<runs, judgeLlm, judgeInput, judgeResult, diskVars, mockVars,
                   cancelVars, mainVars, normVars, startVars, clientOnlyVars, limOnlyVars, runVars, pairVars, expVars>>

\* The sum of a sequence of values.
RECURSIVE sumOf(_)
sumOf(values) == IF values = <<>> THEN 0 ELSE Head(values) + sumOf(Tail(values))

\* Mutant of JudgeReduce: each dimension is reduced by the mean.
JudgeReduce_mean ==
    /\ judgePc = "loop"
    /\ Len(scores) = judgeIterations
    /\ judgeResult' = [d \in Dimensions |-> sumOf(valuesOf(scores, d)) \div Len(scores)]
    /\ judgePc' = "done"
    /\ UNCHANGED <<runs, judgeLlm, judgeInput, scores, diskVars, mockVars,
                   cancelVars, mainVars, normVars, startVars, clientOnlyVars, limOnlyVars, runVars, pairVars, expVars>>

\* The loop has ended: each dimension is reduced by median.
JudgeReduce ==
    /\ judgePc = "loop"
    /\ Len(scores) = judgeIterations
    /\ judgeResult' = [d \in Dimensions |-> median(valuesOf(scores, d))]
    /\ judgePc' = "done"
    /\ UNCHANGED <<runs, judgeLlm, judgeInput, scores, diskVars, mockVars,
                   cancelVars, mainVars, normVars, startVars, clientOnlyVars, limOnlyVars, runVars, pairVars, expVars>>

InitJudgeSpec ==
    RunIdle /\ PairIdle /\ LimOnlyIdle /\ DiskIdle /\ MockIdle /\ InitJudge /\ CancelIdle
    /\ MainIdle /\ NormIdle /\ StartIdle /\ ExpIdle

NextJudge ==
    \/ JudgeHeuristic
    \/ JudgeIterate
    \/ JudgeReduce

SpecJudge == InitJudgeSpec /\ [][NextJudge]_vars

\* ------------------------------------------------------------------------
\* The experiment service of the web application: startExperimentRun, the
\* background run and the store sink it hands to PipelineRunner as onRecord.
\* The repository carries two modules of this service; `variant` says which
\* one the route imports.
\* ------------------------------------------------------------------------

Variants == {"experimentRunner", "experiment-runner"}

ExperimentStatus == {"draft", "running", "completed", "failed"}

\* experiment.conditions as stored.
ExpConditionInputs == { <<>>, <<"zz">>, <<"A0">>, <<"A3", "A0", "A3">> }

\* experiment.config as stored: parses, is not JSON, or is JSON the config
\* schema rejects.
ExpConfigInputs == {"ok", "badJson", "badSchema"}

\* normalizeConditions: the valid conditions requested, once each, in
\* conditionOrder.
normalizeConditions(raw) ==
    SelectSeq(conditionOrder, LAMBDA c : \E i \in 1..Len(raw) : raw[i] = c)

\* Number of records of the run: samples x conditions.
NumRecords == expInput.samples * Len(normalizeConditions(expInput.conditions))

\* The records of the run in progress.
Records == DOMAIN recPc

InitExp ==
    /\ variant \in Variants
    /\ expInput \in [status : ExperimentStatus,
                     conditions : ExpConditionInputs,
                     config : ExpConfigInputs,
                     scenes : 0..1,
                     samples : 0..MaxExpSamples]
    /\ expInput.scenes = 0 => expInput.samples = 0
    /\ expStatus = expInput.status
    /\ startPc = "idle"
    /\ bgPc = "none"
    /\ bgOutcome = "none"
    /\ recPc = <<>>
    /\ prevWrite = <<>>
    /\ storeChain = 0
    /\ rows = <<>>
    /\ runOutcome = "none"
    /\ storeFaults = 0

\* What startExperimentRun throws before it touches the store, "none" when
\* every check passes: ensureStartable, normalizeConditions, then
\* loadExperimentConfig (JSON.parse, then configSchema.parse).
startCheck(e) ==
    IF e.status # "draft" THEN "ExperimentStartError"
    ELSE IF Len(normalizeConditions(e.conditions)) = 0 THEN "ExperimentStartError"
    ELSE IF e.config = "badJson" THEN "ExperimentStartError"
    ELSE IF e.config = "badSchema" THEN "ZodError"
    ELSE "none"

\* startExperimentRun throws.
StartReject ==
    /\ startPc = "idle"
    /\ startCheck(expInput) # "none"
    /\ startPc' = startCheck(expInput)
    /\ UNCHANGED <<variant, expInput, expStatus, bgPc, bgOutcome, recPc, prevWrite,
                   storeChain, rows, runOutcome, storeFaults, runVars, pairVars, limVars>>

\* startExperimentRun marks the experiment running, launches the background
\* run without awaiting it and returns the run id.
StartOk ==
    /\ startPc = "idle"
    /\ startCheck(expInput) = "none"
    /\ expStatus' = "running"
    /\ startPc' = "returned"
    /\ bgPc' = "fetchScenes"
    /\ UNCHANGED <<variant, expInput, bgOutcome, recPc, prevWrite, storeChain, rows,
                   runOutcome, storeFaults, runVars, pairVars, limVars>>

\* runExperiment up to runner.run(): no scene or no sample throws an
\* ExperimentStartError inside the background run.
FetchScenes ==
    /\ bgPc = "fetchScenes"
    /\ IF expInput.scenes = 0 \/ expInput.samples = 0
       THEN /\ bgPc' = "settled"
            /\ bgOutcome' = "error"
            /\ UNCHANGED <<recPc, prevWrite, runOutcome>>
       ELSE /\ bgPc' = "run"
            /\ recPc' = [r \in 1..NumRecords |-> "processing"]
            /\ prevWrite' = [r \in 1..NumRecords |-> 0]
            /\ runOutcome' = "pending"
            /\ UNCHANGED bgOutcome
    /\ UNCHANGED <<variant, expInput, expStatus, startPc, storeChain, rows,
                   storeFaults, runVars, pairVars, limVars>>

\* processSample resolved for record r and run() awaits onRecord(record):
\* the insert is chained on the sink's writeChain.
OnRecord(r) ==
    /\ bgPc \in {"run", "settled", "finished"}
    /\ recPc[r] = "processing"
    /\ recPc' = [recPc EXCEPT ![r] = "queued"]
    /\ prevWrite' = [prevWrite EXCEPT ![r] = storeChain]
    /\ storeChain' = r
    /\ UNCHANGED <<variant, expInput, expStatus, startPc, bgPc, bgOutcome, rows,
                   runOutcome, storeFaults, runVars, pairVars, limVars>>

\* processSample rejected for record r.
PairThrow(r) ==
    /\ bgPc \in {"run", "settled", "finished"}
    /\ recPc[r] = "processing"
    /\ recPc' = [recPc EXCEPT ![r] = "thrown"]
    /\ UNCHANGED <<variant, expInput, expStatus, startPc, bgPc, bgOutcome, prevWrite,
                   storeChain, rows, runOutcome, storeFaults, runVars, pairVars, limVars>>

\* The write of record r has rejected: its own insert failed ("failed") or
\* an earlier one did ("rejected").
writeRejected(r) == recPc[r] \in {"failed", "rejected"}

\* The write record r was chained on has settled, and how.
prevSettled(r) ==
    IF prevWrite[r] = 0 THEN "fulfilled"
    ELSE IF recPc[prevWrite[r]] = "inserted" THEN "fulfilled"
    ELSE IF writeRejected(prevWrite[r]) THEN "rejected"
    ELSE "pending"

\* The previous write fulfilled: insertRunRecord starts for record r.
InsertStart(r) ==
    /\ recPc[r] = "queued"
    /\ prevSettled(r) = "fulfilled"
    /\ recPc' = [recPc EXCEPT ![r] = "inserting"]
    /\ UNCHANGED <<variant, expInput, expStatus, startPc, bgPc, bgOutcome, prevWrite,
                   storeChain, rows, runOutcome, storeFaults, runVars, pairVars, limVars>>

\* The previous write rejected: the insert of record r is never made and
\* its own write rejects with the same error.
InsertSkip(r) ==
    /\ recPc[r] = "queued"
    /\ prevSettled(r) = "rejected"
    /\ recPc' = [recPc EXCEPT ![r] = "rejected"]
    /\ UNCHANGED <<variant, expInput, expStatus, startPc, bgPc, bgOutcome, prevWrite,
                   storeChain, rows, runOutcome, storeFaults, runVars, pairVars, limVars>>

\* db.insert(schema.runs) succeeds.
InsertOk(r) ==
    /\ recPc[r] = "inserting"
    /\ recPc' = [recPc EXCEPT ![r] = "inserted"]
    /\ rows' = Append(rows, r)
    /\ UNCHANGED <<variant, expInput, expStatus, startPc, bgPc, bgOutcome, prevWrite,
                   storeChain, runOutcome, storeFaults, runVars, pairVars, limVars>>

\* db.insert(schema.runs) throws.
InsertFail(r) ==
    /\ recPc[r] = "inserting"
    /\ storeFaults < MaxStoreFaults
    /\ storeFaults' = storeFaults + 1
    /\ recPc' = [recPc EXCEPT ![r] = "failed"]
    /\ UNCHANGED <<variant, expInput, expStatus, startPc, bgPc, bgOutcome, prevWrite,
                   storeChain, rows, runOutcome, runVars, pairVars, limVars>>

\* Promise.all of run(): fulfilled when every task is, rejected as soon as
\* one task rejects (processSample threw, or onRecord's promise rejected).
RunSettle ==
    /\ bgPc = "run"
    /\ \/ /\ \A r \in Records : recPc[r] = "inserted"
          /\ runOutcome' = "resolved"
          /\ bgOutcome' = "ok"
       \/ /\ \E r \in Records : recPc[r] = "thrown" \/ writeRejected(r)
          /\ runOutcome' = "rejected"
          /\ bgOutcome' = "error"
    /\ bgPc' = "settled"
    /\ UNCHANGED <<variant, expInput, expStatus, startPc, recPc, prevWrite, storeChain,
                   rows, storeFaults, runVars, pairVars, limVars>>

\* The status the background run stores once runExperiment has settled.
\* experimentRunner: completed, or failed from the catch block.
\* experiment-runner: runExperimentInBackground only logs the error.
statusAfterRun(v, outcome, status) ==
    IF v = "experimentRunner"
    THEN (IF outcome = "ok" THEN "completed" ELSE "failed")
    ELSE status

\* The background run ends.
BackgroundEnd ==
    /\ bgPc = "settled"
    /\ expStatus' = statusAfterRun(variant, bgOutcome, expStatus)
    /\ bgPc' = "finished"
    /\ UNCHANGED <<variant, expInput, startPc, bgOutcome, recPc, prevWrite, storeChain,
                   rows, runOutcome, storeFaults, runVars, pairVars, limVars>>

InitExpSpec == RunIdle /\ PairIdle /\ LimIdle /\ InitExp

NextExp ==
    \/ StartReject
    \/ StartOk
    \/ FetchScenes
    \/ \E r \in Records : OnRecord(r)
    \/ \E r \in Records : PairThrow(r)
    \/ \E r \in Records : InsertStart(r)
    \/ \E r \in Records : InsertSkip(r)
    \/ \E r \in Records : InsertOk(r)
    \/ \E r \in Records : InsertFail(r)
    \/ RunSettle
    \/ BackgroundEnd

SpecExp == InitExpSpec /\ [][NextExp]_vars

\* ------------------------------------------------------------------------
\* Concurrent POST /:id/start requests for one experiment
\* ------------------------------------------------------------------------

StartRequests == 1..NumStartRequests

\* The experiment exists and its conditions are valid; its status and its
\* config are as stored.
InitStart ==
    /\ startInput \in [status : ExperimentStatus, config : ExpConfigInputs,
                       variant : Variants]
    /\ storedStatus = startInput.status
    /\ reqPc = [r \in StartRequests |-> "idle"]
    /\ reqSeen = [r \in StartRequests |-> "none"]
    /\ launches = <<>>
    /\ ended = {}

\* The handler fetches the row and tests the row it got: the route answers
\* 400 for a running experiment, startExperimentRun throws for any status
\* but draft; otherwise it awaits loadExperimentConfig.
FetchAndCheck(r) ==
    /\ reqPc[r] = "idle"
    /\ reqSeen' = [reqSeen EXCEPT ![r] = storedStatus]
    /\ reqPc' = [reqPc EXCEPT ![r] = IF storedStatus = "draft" THEN "loading"
                                      ELSE "rejected"]
    /\ UNCHANGED <<startInput, storedStatus, launches, ended, diskVars, mockVars,
                   judgeVars, cancelVars, mainVars, normVars, clientOnlyVars,
                   limOnlyVars, runVars, pairVars, expVars>>

\* loadExperimentConfig settles: it throws, or the update that sets the
\* status to running is sent, whatever the status now stored.
MarkRunning(r) ==
    /\ reqPc[r] = "loading"
    /\ IF startInput.config # "ok"
       THEN /\ reqPc' = [reqPc EXCEPT ![r] = "rejected"]
            /\ UNCHANGED storedStatus
       ELSE /\ reqPc' = [reqPc EXCEPT ![r] = "marked"]
            /\ storedStatus' = "running"
    /\ UNCHANGED <<startInput, reqSeen, launches, ended, diskVars, mockVars,
                   judgeVars, cancelVars, mainVars, normVars, clientOnlyVars,
                   limOnlyVars, runVars, pairVars, expVars>>

\* The update has resolved: the background run is launched and the handler
\* answers 202.
Launch(r) ==
    /\ reqPc[r] = "marked"
    /\ launches' = Append(launches, r)
    /\ reqPc' = [reqPc EXCEPT ![r] = "started"]
    /\ UNCHANGED <<startInput, storedStatus, reqSeen, ended, diskVars, mockVars,
                   judgeVars, cancelVars, mainVars, normVars, clientOnlyVars,
                   limOnlyVars, runVars, pairVars, expVars>>

\* The background run launched by request r ends, well or not.
BackgroundSettles(r) ==
    /\ reqPc[r] = "started"
    /\ r \notin ended
    /\ ended' = ended \cup {r}
    /\ \E outcome \in {"ok", "error"} :
         storedStatus' = statusAfterRun(startInput.variant, outcome, storedStatus)
    /\ UNCHANGED <<startInput, reqPc, reqSeen, launches, diskVars, mockVars,
                   judgeVars, cancelVars, mainVars, normVars, clientOnlyVars,
                   limOnlyVars, runVars, pairVars, expVars>>

InitStartSpec ==
    /\ RunIdle /\ PairIdle /\ LimOnlyIdle /\ DiskIdle /\ MockIdle /\ JudgeIdle
    /\ CancelIdle /\ MainIdle /\ NormIdle /\ InitStart /\ ExpIdle

NextStart ==
    \/ \E r \in StartRequests : FetchAndCheck(r)
    \/ \E r \in StartRequests : MarkRunning(r)
    \/ \E r \in StartRequests : Launch(r)
    \/ \E r \in StartRequests : BackgroundSettles(r)

SpecStart == InitStartSpec /\ [][NextStart]_vars


Init == InitRun /\ PairIdle /\ LimIdle /\ ExpIdle

Spec == Init /\ [][Next]_vars

\* ------------------------------------------------------------------------
\* A run whose caller asks for cancellation
\* ------------------------------------------------------------------------

\* The caller decides to cancel the pending run. run() takes no signal and
\* reads no flag, so nothing in the runner changes.
CancelRequest ==
    /\ runStatus = "pending"
    /\ ~cancelRequested
    /\ cancelRequested' = TRUE
    /\ UNCHANGED <<runVars, pairVars, limOnlyVars, clientOnlyVars, diskVars,
                   mockVars, judgeVars, mainVars, normVars, startVars, expVars>>

NextCancel == Next \/ CancelRequest

SpecCancel == Init /\ [][NextCancel]_vars

\* ------------------------------------------------------------------------
\* main() of the run command
\* ------------------------------------------------------------------------

\* What may be wrong with an invocation, by the place that detects it:
\*   invalidConfig        loadConfig (the file does not match configSchema)
\*   badDataset           readJsonl
\*   noValidConditions    resolveConditions
\*   badPrompt            resolvePrompt of the translator, in the constructor
\*   unsupportedProvider  createLLMClient (provider "anthropic")
\*   missingApiKey        the constructor of OpenAIChatClient
MainErrors == {"none", "invalidConfig", "badDataset", "noValidConditions",
               "badPrompt", "unsupportedProvider", "missingApiKey"}

NoOutputFile == [exists |-> FALSE, lines |-> <<>>]

\* The output file before the command runs: missing, or left by an earlier
\* run with one or two lines.
OutputInputs ==
    { NoOutputFile,
      [exists |-> TRUE, lines |-> <<"old1">>],
      [exists |-> TRUE, lines |-> <<"old1", "old2">>] }

InitMain ==
    /\ mainInput \in [error : MainErrors, overwrite : BOOLEAN, before : OutputInputs]
    /\ mainPc = "start"
    /\ outputFile = mainInput.before
    /\ cacheDir = FALSE
    /\ exitCode = 0 - 1

\* main().catch: the error is logged and process.exit(1) is called.
exitWith(code) ==
    /\ mainPc' = "exited"
    /\ exitCode' = code

\* loadConfig, readJsonl, resolveConditions and the test for an existing
\* output file.
LoadInputs ==
    /\ mainPc = "start"
    /\ IF mainInput.error \in {"invalidConfig", "badDataset", "noValidConditions"}
          \/ (outputFile.exists /\ ~mainInput.overwrite)
       THEN exitWith(1)
       ELSE mainPc' = "loaded" /\ UNCHANGED exitCode
    /\ UNCHANGED <<mainInput, outputFile, cacheDir, diskVars, mockVars, judgeVars,
                   cancelVars, normVars, startVars, clientOnlyVars, limOnlyVars, runVars, pairVars, expVars>>

\* mkdir of the output directory and writeFile(outputFile, ""): the file is
\* created, or emptied.
CreateOutput ==
    /\ mainPc = "loaded"
    /\ outputFile' = [exists |-> TRUE, lines |-> <<>>]
    /\ mainPc' = "created"
    /\ UNCHANGED <<mainInput, cacheDir, exitCode, diskVars, mockVars, judgeVars,
                   cancelVars, normVars, startVars, clientOnlyVars, limOnlyVars, runVars, pairVars, expVars>>

\* new PipelineRunner(...): the translator's prompt is resolved first, then
\* createLLMClient makes the cache directory before it looks at the
\* provider and before the client's constructor looks for the API key.
Construct ==
    /\ mainPc = "created"
    /\ cacheDir' = (mainInput.error # "badPrompt")
    /\ IF mainInput.error \in {"badPrompt", "unsupportedProvider", "missingApiKey"}
       THEN exitWith(1)
       ELSE mainPc' = "constructed" /\ UNCHANGED exitCode
    /\ UNCHANGED <<mainInput, outputFile, diskVars, mockVars, judgeVars,
                   cancelVars, normVars, startVars, clientOnlyVars, limOnlyVars, runVars, pairVars, expVars>>

\* runner.run() resolves after appending the records, the resolved prompts
\* are written and main() returns.
RunAndFinish ==
    /\ mainPc = "constructed"
    /\ \E records \in {<<"new1">>, <<"new1", "new2">>} :
         outputFile' = [exists |-> TRUE, lines |-> outputFile.lines \o records]
    /\ exitWith(0)
    /\ UNCHANGED <<mainInput, cacheDir, diskVars, mockVars, judgeVars,
                   cancelVars, normVars, startVars, clientOnlyVars, limOnlyVars, runVars, pairVars, expVars>>

\* runner.run() rejects: main().catch exits with 1.
RunFails ==
    /\ mainPc = "constructed"
    /\ exitWith(1)
    /\ UNCHANGED <<mainInput, outputFile, cacheDir, diskVars, mockVars, judgeVars,
                   cancelVars, normVars, startVars, clientOnlyVars, limOnlyVars, runVars, pairVars, expVars>>

InitMainSpec ==
    /\ RunIdle /\ PairIdle /\ LimOnlyIdle /\ DiskIdle /\ MockIdle /\ JudgeIdle
    /\ CancelIdle /\ InitMain /\ NormIdle /\ StartIdle /\ ExpIdle

NextMain ==
    \/ LoadInputs
    \/ CreateOutput
    \/ Construct
    \/ RunAndFinish
    \/ RunFails

SpecMain == InitMainSpec /\ [][NextMain]_vars

\* ------------------------------------------------------------------------
\* ConstraintNormalizer.normalize
\* ------------------------------------------------------------------------

\* An element that does not match the element schema of its list (a glossary
\* entry without `en`, a pattern that is not a string).
Invalid == "#invalid"

\* An optional list of a Partial<Constraints>: undefined, or an array.
Undefined == [present |-> FALSE, items |-> <<>>]

Defined(items) == [present |-> TRUE, items |-> items]

OptionalLists(S, n) == {Undefined} \cup {Defined(l) : l \in SeqsUpTo(S, n)}

\* Partial<Constraints> as found in the config defaults and in a sample;
\* maxChars 0 stands for an unset format.maxChars.
PartialConstraints ==
    [glossary : OptionalLists({"g1", "g2"}, MaxListLen),
     bannedPatterns : {Undefined, Defined(<<>>), Defined(<<"p1">>), Defined(<<Invalid>>)},
     allowJapaneseTokens : {Undefined, Defined(<<"t1">>)},
     maxChars : {0, 1}]

NoConstraints ==
    [targetLang |-> "en", maxChars |-> 0, glossary |-> <<>>,
     bannedPatterns |-> <<>>, allowJapaneseTokens |-> <<>>]

InitNorm ==
    /\ defaults \in PartialConstraints
    /\ sampleConstraints \in PartialConstraints
    /\ normPc = "start"
    /\ normalized = [ok |-> TRUE, value |-> NoConstraints]

\* Mutant of mergeArrays: an override that is set replaces the base.
mergeArrays_overrideWins(base, override) ==
    IF override.present THEN override.items ELSE base.items

\* mergeArrays: [...(base ?? []), ...(override ?? [])]
mergeArrays(base, override) ==
    (IF base.present THEN base.items ELSE <<>>)
        \o (IF override.present THEN override.items ELSE <<>>)

\* constraintSchema.parse of an array: it throws on the first element that
\* does not match, and returns the elements otherwise.
parses(list) == \A i \in 1..Len(list) : list[i] # Invalid

\* ConstraintNormalizer.normalize: the sample's format keys override the
\* defaults', the three lists are merged, and the whole is parsed.
ConstraintNormalizer_normalize(d, s) ==
    LET merged ==
          [targetLang |-> "en",
           maxChars |-> IF s.maxChars # 0 THEN s.maxChars ELSE d.maxChars,
           glossary |-> mergeArrays(d.glossary, s.glossary),
           bannedPatterns |-> mergeArrays(d.bannedPatterns, s.bannedPatterns),
           allowJapaneseTokens |->
               mergeArrays(d.allowJapaneseTokens, s.allowJapaneseTokens)]
    IN  IF parses(merged.glossary) /\ parses(merged.bannedPatterns)
            /\ parses(merged.allowJapaneseTokens)
        THEN [ok |-> TRUE, value |-> merged]
        ELSE [ok |-> FALSE, value |-> NoConstraints]

CallNormalize ==
    /\ normPc = "start"
    /\ normalized' = ConstraintNormalizer_normalize(defaults, sampleConstraints)
    /\ normPc' = "done"
    /\ UNCHANGED <<defaults, sampleConstraints, diskVars, mockVars, judgeVars,
                   cancelVars, mainVars, startVars, clientOnlyVars, limOnlyVars, runVars,
                   pairVars, expVars>>

InitNormSpec ==
    /\ RunIdle /\ PairIdle /\ LimOnlyIdle /\ DiskIdle /\ MockIdle /\ JudgeIdle
    /\ CancelIdle /\ MainIdle /\ InitNorm /\ StartIdle /\ ExpIdle

NextNorm == CallNormalize

SpecNorm == InitNormSpec /\ [][NextNorm]_vars


\* ------------------------------------------------------------ properties
linesOf(t) == Cardinality({i \in 1..Len(file) : file[i].task = t})
sinkCount(t) == Cardinality({i \in 1..Len(sink) : sink[i].task = t})

C4_ThrownPairWritten ==
    \A t \in Tasks :
        (pc[t] = "rejected" /\ rec[t] = NoRecord) =>
            linesOf(t) + sinkCount(t) >= 1

\* C7: the number of pairs that have started and not yet finished emitting
\* never exceeds runSettings.concurrency.
C7_BoundedPool == activeCount <= concurrency

C7_Witness ==
    /\ concurrency = 2
    /\ activeCount = 2
    /\ \E t \in Tasks : pc[t] = "queued"
    /\ \E t \in Tasks : pc[t] = "done"

\* C8: at most one append to the JSONL file is in progress at any time, an
\* append in progress has its chained predecessor finished, and every pair
\* that completed without a sink has exactly one line in the file.
C8_SerializedAppends ==
    /\ Cardinality({t \in Tasks : pc[t] = "appending"}) <= 1
    /\ \A t \in Tasks :
          (pc[t] = "appending" /\ prev[t] # 0) => pc[prev[t]] = "done"
    /\ \A t \in Tasks : (pc[t] = "done" /\ ~hasOnRecord) => linesOf(t) = 1

C8_Witness ==
    \E t, u \in Tasks :
        /\ pc[t] = "appending"
        /\ pc[u] = "chained"
        /\ prev[u] = t
        /\ Len(file) >= 1

\* C9 (as stated): no two lines of the JSONL file carry the same
\* (runId, sampleId, condition) triple.
C9_UniqueTriples ==
    \A i, j \in 1..Len(file) :
        (file[i].id = file[j].id /\ file[i].condition = file[j].condition) => i = j

\* C3: in every record returned, status is needs_review exactly when the
\* verification of the final translation holds a critical issue or a failed
\* hard check, and ok otherwise.
C3_StatusIff ==
    runRecord # NoPairRecord =>
        /\ runRecord.status \in {"ok", "needs_review"}
        /\ runRecord.status = "needs_review" <=>
              \/ \E i \in 1..Len(runRecord.issues) : runRecord.issues[i].severity = "critical"
              \/ \E i \in 1..Len(runRecord.hardChecks) : ~runRecord.hardChecks[i].passed
        /\ verification.text = runRecord.final
        /\ runRecord.issues = verification.issues
        /\ runRecord.hardChecks = verification.hardChecks

C3_Witness ==
    /\ runRecord # NoPairRecord
    /\ runRecord.status = "needs_review"
    /\ attempt = 1
    /\ runRecord.final # runRecord.draft
    /\ \A i \in 1..Len(runRecord.issues) : runRecord.issues[i].severity # "critical"
    /\ \E i \in 1..Len(runRecord.hardChecks) : ~runRecord.hardChecks[i].passed

pastStateStage == stage \in {"translate", "verify", "repair", "reverify", "judge", "returned"}

\* C10: a record's state is absent for A0 and A2 and present for A1 and A3,
\* and the state builder is invoked for a pair exactly when its condition is
\* A1 or A3.
C10_StateByCondition ==
    /\ runRecord # NoPairRecord =>
          /\ pairCondition \in {"A0", "A2"} => runRecord.state = "absent"
          /\ pairCondition \in {"A1", "A3"} => runRecord.state = "built"
    /\ stateBuilds > 0 => pairCondition \in {"A1", "A3"}
    /\ (pastStateStage /\ pairCondition \in {"A1", "A3"}) => stateBuilds = 1

C10_Witness ==
    /\ runRecord # NoPairRecord
    /\ pairCondition = "A1"
    /\ runRecord.state = "built"
    /\ stateBuilds = 1

\* Admissions of the clients in S inside the 60-second window ending at t.
inWindow(S, t) ==
    {i \in 1..Len(admitted) :
        /\ admitted[i].client \in S
        /\ admitted[i].timestamp > t - WindowMs
        /\ admitted[i].timestamp <= t}

RECURSIVE tokensOf(_)
tokensOf(I) ==
    IF I = {} THEN 0
    ELSE LET i == CHOOSE x \in I : TRUE IN admitted[i].tokens + tokensOf(I \ {i})

withinBudget(S, t) ==
    /\ limOptions.rpm # 0 => Cardinality(inWindow(S, t)) <= limOptions.rpm
    /\ limOptions.tpm # 0 => tokensOf(inWindow(S, t)) <= limOptions.tpm

\* C5 (as stated): on each limiter, the calls admitted within any 60-second
\* window number at most rpm and their declared tokens sum to at most tpm.
C5_LimiterBudget ==
    \A client \in Components, i \in 1..Len(admitted) :
        withinBudget({client}, admitted[i].timestamp)

\* C6 (as stated, for windows in which every single client kept its own
\* budget): the calls admitted by all clients of the run together stay within
\* rpm and tpm in any 60-second window.
C6_RunWideBudget ==
    \A i \in 1..Len(admitted) :
        (\A client \in Components : withinBudget({client}, admitted[i].timestamp))
            => withinBudget(Components, admitted[i].timestamp)

\* ------------------------------------------------------------------------
\* The repair loop and the stage order of processSample (SpecPair)
\* ------------------------------------------------------------------------

countOf(seq, x) == Cardinality({i \in 1..Len(seq) : seq[i] = x})

RepairKeys == {repairKey(k) : k \in 0..3}

dirty(v) == hasCritical(v) \/ hardFail(v)

\* C11: for A0 and A1 the repairer is never called and no repair_k timing
\* key exists; for A2 and A3 the repair iterations executed and recorded
\* number at most maxRepairs (none when maxRepairs is 0).
C11_RepairBound ==
    /\ pairCondition \in {"A0", "A1"} =>
          /\ countOf(calls, "repair") = 0
          /\ timing \cap RepairKeys = {}
          /\ stage = "returned" => runRecord.timing \cap RepairKeys = {}
    /\ pairCondition \in {"A2", "A3"} =>
          /\ countOf(calls, "repair") <= maxRepairs
          /\ Cardinality(timing \cap RepairKeys) <= maxRepairs
          /\ stage = "returned" =>
                Cardinality(runRecord.timing \cap RepairKeys) <= maxRepairs

\* A3 returned after using up its repairs with the text still failing.
C11_Witness ==
    /\ stage = "returned"
    /\ pairCondition = "A3"
    /\ maxRepairs = 1
    /\ countOf(calls, "repair") = 1
    /\ repairKey(0) \in runRecord.timing
    /\ runRecord.status = "needs_review"

stagePrefix ==
    <<"normalize">>
    \o (IF pairCondition \in {"A1", "A3"} THEN <<"state">> ELSE <<>>)
    \o <<"translate", "verify">>

\* C13: within a pair the calls are normalize, state build (A1/A3 only),
\* translate, verify, then (repair, verify) rounds, then judge; translate
\* and judge run once, the first verify runs for every condition, and judge
\* starts only after the last verify has returned.
C13_StageOrder ==
    /\ \A i \in 1..Len(calls) :
          IF i <= Len(stagePrefix)
          THEN calls[i] = stagePrefix[i]
          ELSE LET k == i - Len(stagePrefix)
               IN  \/ calls[i] = "judge" /\ i = Len(calls) /\ k % 2 = 1
                   \/ calls[i] = "repair" /\ k % 2 = 1
                   \/ calls[i] = "verify" /\ k % 2 = 0
    /\ stage = "judge" => calls[Len(calls)] = "verify"
    /\ stage = "returned" =>
          /\ countOf(calls, "translate") = 1
          /\ countOf(calls, "judge") = 1
          /\ countOf(calls, "verify") = 1 + countOf(calls, "repair")
          /\ calls[Len(calls)] = "judge"
          /\ Len(passes) = countOf(calls, "verify")

\* An A3 pair that built state, repaired once and was judged.
C13_Witness ==
    /\ stage = "returned"
    /\ calls = <<"normalize", "state", "translate", "verify", "repair", "verify", "judge">>

\* The scenario of C14: A2, one repair allowed, the reviewing model reports
\* one critical issue on the first pass and nothing on the second, and no
\* hard check fails on either pass.
C14_Scenario ==
    /\ stage = "returned"
    /\ pairCondition = "A2"
    /\ maxRepairs = 1
    /\ passes[1] = [llm |-> <<"critical">>, hardFail |-> FALSE]
    /\ Len(passes) >= 2 => passes[2] = [llm |-> <<>>, hardFail |-> FALSE]

\* C14 as stated: in that scenario exactly one repair iteration runs, the
\* final status is ok and draft.en differs from final.en.
C14_AsStated ==
    C14_Scenario =>
        /\ countOf(calls, "repair") = 1
        /\ runRecord.status = "ok"
        /\ runRecord.draft # runRecord.final

\* C14, amended: in that scenario exactly one repair iteration runs, the
\* final status is ok and final.en is the repairer's output, the text the
\* second verification examined.
C14_OneRepairOk ==
    C14_Scenario =>
        /\ countOf(calls, "repair") = 1
        /\ Len(passes) = 2
        /\ runRecord.status = "ok"
        /\ runRecord.final = verification.text
        /\ repairKey(0) \in runRecord.timing

C14_Witness ==
    /\ C14_Scenario
    /\ Len(passes) = 2
    /\ runRecord.draft = runRecord.final

\* ------------------------------------------------------------------------
\* The experiment service (SpecExp)
\* ------------------------------------------------------------------------

\* C15: after a successful start the stored status is running until the
\* background run has ended; it is then completed when the run finished
\* without error and failed when it threw.
C15_StatusFollowsRun ==
    /\ (startPc = "returned" /\ bgPc # "finished") => expStatus = "running"
    /\ bgPc = "finished" =>
          expStatus = (IF bgOutcome = "ok" THEN "completed" ELSE "failed")

startPreconditionFails ==
    \/ expInput.status # "draft"
    \/ Len(normalizeConditions(expInput.conditions)) = 0
    \/ expInput.config # "ok"
    \/ expInput.scenes = 0
    \/ expInput.samples = 0

\* C16: when a start precondition fails (status not draft, no valid
\* condition, config does not parse, no scene matched, no sample), the caller
\* gets an ExperimentStartError and the stored status stays what it was.
C16_StartErrorKeepsStatus ==
    (startPc # "idle" /\ startPreconditionFails) =>
        /\ startPc = "ExperimentStartError"
        /\ expStatus = expInput.status

\* C17: a failed store insert of one record does not make run() reject,
\* does not keep later records out of the store and does not end the
\* experiment as failed.
C17_SinkFailureTolerated ==
    ((\E r \in Records : recPc[r] = "failed") /\ (\A r \in Records : recPc[r] # "thrown")) =>
        /\ runOutcome # "rejected"
        /\ \A r \in Records : recPc[r] # "rejected"
        /\ expStatus # "failed"

\* ------------------------------------------------------------------------
\* JSONL append failure (Spec)
\* ------------------------------------------------------------------------

\* The append of task t was started and failed.
appendFailed(t) ==
    /\ ~hasOnRecord
    /\ pc[t] = "rejected"
    /\ rec[t] # NoRecord
    /\ chainReady(t)

\* C18: once a JSONL append has failed, run() does not resolve (it rejects),
\* and every record whose append completed is still in the output file.
C18_AppendFailureFatal ==
    /\ (\E t \in Tasks : appendFailed(t)) => runStatus \in {"pending", "rejected"}
    /\ ~hasOnRecord => \A t \in Tasks : pc[t] = "done" => linesOf(t) = 1
    /\ \A t \in Tasks : appendFailed(t) => linesOf(t) = 0

\* run() rejected on a failed append with an earlier record in the file.
C18_Witness ==
    /\ runStatus = "rejected"
    /\ \E t, u \in Tasks :
         /\ appendFailed(t)
         /\ pc[u] = "done"
         /\ linesOf(u) = 1
         /\ file[1].task = u

\* ------------------------------------------------------------------------
\* LLM errors inside the pipeline stages (SpecPair)
\* ------------------------------------------------------------------------

\* C19: an LLM error raised while the verifier, the state builder or the
\* judge calls its model is recovered inside that stage: processSample is
\* never rejected by one of these three calls.
C19_LlmErrorRecovered ==
    stage = "thrown" => calls[Len(calls)] \notin {"verify", "state", "judge"}

\* ------------------------------------------------------------------------
\* The response cache of the client (SpecClient)
\* ------------------------------------------------------------------------

callersIn(log) == {log[i].caller : i \in 1..Len(log)}

\* C20: a generate() call that finds a cache entry returns the cached
\* response, makes no provider request and is never admitted by the rate
\* limiter, so it adds nothing to the limiter's window.
C20_CacheHitFree ==
    \A c \in Callers :
        callOut[c].source = "cache" =>
            /\ callPc[c] = "done"
            /\ callOut[c].value \in Responses
            /\ c \notin callersIn(admitted)
            /\ c \notin callersIn(network)

\* One caller was served from the cache while another went through a
\* limiter that allows a single request per minute.
C20_Witness ==
    \E c, d \in Callers :
        /\ callOut[c].source = "cache"
        /\ callOut[d].source = "network"
        /\ limOptions.rpm = 1
        /\ callersIn(admitted) = {d}
        /\ Len(requestTimes[limiterOf(callClient[d])]) = 1

\* C21: a generate() call ends with an error only when its provider request
\* failed: an entry file that does not parse (corrupt, or still being written
\* by a concurrent set) counts as a miss and no parse error reaches the
\* caller.
C21_CorruptIsMiss ==
    \A c \in Callers :
        callOut[c].source = "error" => c \in callersIn(network)

okKeys(log) == {log[i].key : i \in {j \in 1..Len(log) : log[j].ok}}

writersOf(key) == {c \in Callers : callPc[c] = "writing" /\ callKey[c] = key}

C23_BitIdentical ==
    \A i, j \in 1..Len(written) :
        /\ written[i].key = written[j].key
        /\ written[i].content.entry.value = written[j].content.entry.value
        => written[i].content = written[j].content

\* ------------------------------------------------------------------------
\* Token usage of a record (SpecPair)
\* ------------------------------------------------------------------------

\* C24: the prompt and completion tokens of a returned record are the sums
\* over every LLM response received for the pair: state builder,
\* translator, every verifier pass, every repair and every judge iteration.
C24_UsageIsSum ==
    stage = "returned" =>
        /\ runRecord.tokens.prompt = spent.prompt
        /\ runRecord.tokens.completion = spent.completion

\* ------------------------------------------------------------------------
\* The hard checks of a record (SpecPair)
\* ------------------------------------------------------------------------

checkOf(checks, id) == SelectSeq(checks, LAMBDA check : check.id = id)

\* min over whichever of format.maxChars and settings.maxLength are set.
minLimit(st) ==
    IF st.maxChars = 0 THEN st.maxLength
    ELSE IF st.maxLength = 0 THEN st.maxChars
    ELSE IF st.maxChars < st.maxLength THEN st.maxChars ELSE st.maxLength

\* C25: when a length bound is set, the maxLength check of a record passes
\* if and only if the final translation is at most as long as the minimum of
\* the bounds that are set.
C25_MaxLengthIsMin ==
    stage = "returned" /\ minLimit(settings) # 0 =>
        LET found == checkOf(runRecord.hardChecks, "maxLength")
        IN  /\ Len(found) = 1
            /\ found[1].passed <=> runRecord.final.len <= minLimit(settings)

strictTermMissing(r) == r.final.missing

failedCheck(r, id) ==
    \E i \in 1..Len(r.hardChecks) : r.hardChecks[i].id = id /\ ~r.hardChecks[i].passed

\* C26 as stated: every record whose final translation lacks a strict
\* glossary term has a failed glossaryStrictMatches check and the status
\* needs_review.
C26_AsStated ==
    stage = "returned" /\ strictTermMissing(runRecord) =>
        /\ failedCheck(runRecord, "glossaryStrictMatches")
        /\ runRecord.status = "needs_review"

\* C26: with the glossaryStrictMatches rule switched on, every record whose
\* final translation lacks a strict glossary term has a failed
\* glossaryStrictMatches check and the status needs_review; with the rule
\* switched off the record has no glossaryStrictMatches check at all.
C26_StrictGlossary ==
    stage = "returned" =>
        /\ strictTermMissing(runRecord) /\ settings.glossaryStrictMatches =>
               /\ failedCheck(runRecord, "glossaryStrictMatches")
               /\ runRecord.status = "needs_review"
        /\ ~settings.glossaryStrictMatches =>
               checkOf(runRecord.hardChecks, "glossaryStrictMatches") = <<>>

\* A record whose final translation lacks a strict term was returned with
\* the rule switched on, and no other check failed.
C26_Witness ==
    /\ stage = "returned"
    /\ strictTermMissing(runRecord)
    /\ settings.glossaryStrictMatches
    /\ failedCheck(runRecord, "glossaryStrictMatches")
    /\ ~failedCheck(runRecord, "noDisallowedJapanese")
    /\ runRecord.status = "needs_review"

\* ------------------------------------------------------------------------
\* Scenario S2 with the mock provider (SpecMock)
\* ------------------------------------------------------------------------

StrictKey == <<GlossaryEntry("kagi", "Key", TRUE)>>

\* C27: for the sample text of S2 with the strict glossary entry for Key,
\* the record's final.en is the source with its full stop replaced and
\* nothing else, the glossaryStrictMatches check fails, the status is
\* needs_review and a STYLE_VIOLATION issue of severity minor is reported.
C27_MockScenario ==
    mockPc = "returned" /\ scenario.text = KeyText /\ scenario.glossary = StrictKey =>
        /\ mockRecord.final = <<"kagi-wa-koko", ".">>
        /\ failedCheck(mockRecord, "glossaryStrictMatches")
        /\ mockRecord.status = "needs_review"
        /\ \E i \in 1..Len(mockRecord.issues) :
               /\ mockRecord.issues[i].type = "STYLE_VIOLATION"
               /\ mockRecord.issues[i].severity = "minor"

\* ------------------------------------------------------------------------
\* The judge's scores (SpecJudge)
\* ------------------------------------------------------------------------

atMost(values, x) == Cardinality({i \in 1..Len(values) : values[i] <= x})
atLeast(values, x) == Cardinality({i \in 1..Len(values) : values[i] >= x})

\* x is a median of the values: at least half of them lie on either side.
isMedian(x, values) ==
    /\ 2 * atMost(values, x) >= Len(values)
    /\ 2 * atLeast(values, x) >= Len(values)

\* C28: a judge with a model performs max(1, judgeRuns) iterations; every
\* iteration contributes one breakdown within [0,1] (the heuristic score
\* when the reply does not parse), and each dimension it returns, overall
\* included, is the median of that dimension over those iterations and lies
\* within [0,1].
C28_JudgeMedian ==
    judgeLlm =>
        /\ Len(scores) <= judgeIterations
        /\ \A i \in 1..Len(scores) : \A d \in Dimensions :
               scores[i][d] >= 0 /\ scores[i][d] <= One
        /\ judgePc = "done" =>
               /\ Len(scores) = judgeIterations
               /\ judgeIterations >= 1
               /\ \A d \in Dimensions :
                      /\ isMedian(judgeResult[d], valuesOf(scores, d))
                      /\ judgeResult[d] >= 0 /\ judgeResult[d] <= One

\* Three iterations ended, the first with a reply that did not parse, the
\* second with fields that had to be clamped, and the reduced adequacy is the
\* middle one of three different values.
C28_Witness ==
    /\ judgeLlm
    /\ judgePc = "done"
    /\ runs = 3
    /\ scores[1] = heuristicScore(judgeInput)
    /\ scores[2] = parsedScore(Reply(One + 200, 0 - 80, 200, 0, 360).fields)
    /\ scores[3].adequacy < scores[1].adequacy
    /\ scores[1].adequacy < scores[2].adequacy
    /\ judgeResult.adequacy = scores[1].adequacy

\* ------------------------------------------------------------------------
\* Cancellation of a run (SpecCancel)
\* ------------------------------------------------------------------------

\* C29: once the run has been cancelled no further pair is admitted: a pair
\* still queued at that moment stays queued, so the output holds at most as
\* many lines as pairs were admitted before the cancellation.
C29_CancelStopsAdmission ==
    [][cancelRequested => \A t \in Tasks : pc[t] = "queued" => pc'[t] = "queued"]_vars

\* ------------------------------------------------------------------------
\* Configuration errors of the run command (SpecMain)
\* ------------------------------------------------------------------------

ConfigurationErrors == {"invalidConfig", "unsupportedProvider", "missingApiKey", "badPrompt"}

\* C30: when the invocation has a configuration error the command exits
\* non-zero, and at that point the output file is what it was before the
\* command ran: an existing file keeps its content and no file is created.
C30_ConfigErrorKeepsOutput ==
    mainInput.error \in ConfigurationErrors /\ mainPc = "exited" =>
        /\ exitCode = 1
        /\ outputFile = mainInput.before

\* ------------------------------------------------------------------------
\* Runs driven with a record callback (Spec)
\* ------------------------------------------------------------------------

\* C31: in a run with an onRecord callback nothing is ever appended to the
\* JSONL file and no append is chained or in progress; every record that
\* processSample returned has been handed to the callback, once.
C31_CallbackOnly ==
    hasOnRecord =>
        /\ file = <<>>
        /\ writeChain = 0
        /\ \A t \in Tasks :
             /\ pc[t] \notin {"chained", "appending"}
             /\ rec[t] # NoRecord => sinkCount(t) = 1

\* The run-one case: one sample, one condition, the run resolved.
C31_Witness ==
    /\ hasOnRecord
    /\ Len(dataset) = 1
    /\ Len(conditions) = 1
    /\ runStatus = "resolved"
    /\ sink = <<rec[1]>>
    /\ rec[1] # NoRecord

\* ------------------------------------------------------------------------
\* Merging of constraint lists (SpecNorm)
\* ------------------------------------------------------------------------

ListFields == {"glossary", "bannedPatterns", "allowJapaneseTokens"}

itemsOf(optional) == IF optional.present THEN optional.items ELSE <<>>

\* C32: when normalize returns, each of glossary, bannedPatterns and
\* allowJapaneseTokens is the defaults' list followed by the sample's list,
\* element by element, so its length is the sum of the two lengths; with an
\* empty or missing defaults' list it is the sample's list.
C32_ListsConcatenated ==
    normPc = "done" /\ normalized.ok =>
        \A f \in ListFields :
            LET d == itemsOf(defaults[f])
                s == itemsOf(sampleConstraints[f])
                r == normalized.value[f]
            IN  /\ Len(r) = Len(d) + Len(s)
                /\ \A i \in 1..Len(d) : r[i] = d[i]
                /\ \A i \in 1..Len(s) : r[Len(d) + i] = s[i]
                /\ d = <<>> => r = s

\* A duplicate entry on both sides is kept twice, after the defaults' first
\* entry.
C32_Witness ==
    /\ normPc = "done"
    /\ normalized.ok
    /\ defaults.glossary = Defined(<<"g2", "g1">>)
    /\ sampleConstraints.glossary = Defined(<<"g1", "g1">>)
    /\ normalized.value.glossary = <<"g2", "g1", "g1", "g1">>
    /\ defaults.bannedPatterns = Undefined
    /\ normalized.value.bannedPatterns = <<"p1">>

\* ------------------------------------------------------------------------
\* The issues of a verification (SpecPair)
\* ------------------------------------------------------------------------

failedChecks(v) == SelectSeq(v.hardChecks, LAMBDA check : ~check.passed)

\* C33: the issues of a verification start with one issue per failed hard
\* check, in the order of the checks: FORMAT_VIOLATION for formatPreserved
\* and STYLE_VIOLATION otherwise, major for noDisallowedJapanese and minor
\* otherwise, never critical, confidence 0.8; the reviewing model's issues
\* follow, so a passed check adds no issue.
C33_SynthesizedIssues ==
    passes # <<>> =>
        LET failed == failedChecks(verification)
            reported == passes[Len(passes)].llm
            issues == verification.issues
        IN  /\ Len(issues) = Len(failed) + Len(reported)
            /\ \A i \in 1..Len(failed) :
                 /\ issues[i].id = failed[i].id
                 /\ issues[i].type = (IF failed[i].id = "formatPreserved"
                                      THEN "FORMAT_VIOLATION" ELSE "STYLE_VIOLATION")
                 /\ issues[i].severity = (IF failed[i].id = "noDisallowedJapanese"
                                          THEN "major" ELSE "minor")
                 /\ issues[i].severity # "critical"
                 /\ issues[i].confidence = HardConfidence
            /\ \A i \in 1..Len(reported) :
                 /\ issues[Len(failed) + i].id = "llm"
                 /\ issues[Len(failed) + i].severity = reported[i]

\* Three of four checks fail, maxLength passes, and the reviewing model adds
\* a critical issue.
C33_Witness ==
    /\ passes # <<>>
    /\ Len(verification.hardChecks) = 4
    /\ verification.hardChecks[2] = Check("maxLength", TRUE)
    /\ Len(failedChecks(verification)) = 3
    /\ Len(verification.issues) = 4
    /\ verification.issues[1].severity = "major"
    /\ verification.issues[3].type = "FORMAT_VIOLATION"
    /\ verification.issues[4].severity = "critical"

\* ------------------------------------------------------------------------
\* The heuristic repair of an over-long text (SpecPair)
\* ------------------------------------------------------------------------

\* C34: after a repair without a repair model of a text longer than
\* format.maxChars, the repaired text has at most maxChars characters and
\* the maxLength check of the verification that follows passes.
C34_TruncatedFits ==
    /\ "repairer" \notin llm
    /\ settings.maxChars # 0
    /\ Len(calls) >= 2
    /\ calls[Len(calls)] = "verify"
    /\ calls[Len(calls) - 1] = "repair"
    => /\ current.len <= settings.maxChars
       /\ \A i \in 1..Len(verification.hardChecks) :
            verification.hardChecks[i].id = "maxLength" =>
                verification.hardChecks[i].passed

\* ------------------------------------------------------------------------
\* What a record's results were computed on (SpecPair)
\* ------------------------------------------------------------------------

\* C35: in a returned record the issues, the hard checks and the hard
\* scores are those of a verification of final.en, the judge scored
\* final.en, and the pair made one verify call more than repair calls.
C35_ResultsOfFinal ==
    stage = "returned" =>
        LET onFinal == verify(runRecord.final, settings, passes[Len(passes)].llm)
        IN  /\ verification.text = runRecord.final
            /\ runRecord.issues = onFinal.issues
            /\ runRecord.hardChecks = onFinal.hardChecks
            /\ runRecord.scores.hard = hardScoresOf(onFinal)
            /\ runRecord.scores.judge = judgeScore(runRecord.final)
            /\ countOf(calls, "verify") = 1 + countOf(calls, "repair")
            /\ Len(passes) = 1 + attempt

\* A record whose final.en differs from the draft after one repair.
C35_Witness ==
    /\ stage = "returned"
    /\ runRecord.final # runRecord.draft
    /\ countOf(calls, "repair") = 1
    /\ countOf(calls, "verify") = 2
    /\ runRecord.hardChecks # verify(runRecord.draft, settings, passes[1].llm).hardChecks

\* The first verification reported no critical issue and no failed check.
firstPassClean ==
    /\ passes # <<>>
    /\ ~passes[1].hardFail
    /\ \A i \in 1..Len(passes[1].llm) : passes[1].llm[i] # "critical"

\* C36: draft.en, once the translator has returned it, is never changed,
\* and the record carries it; for A0 and A1, for maxRepairs = 0 and after a
\* clean first verification no repair is made and final.en equals draft.en.
C36_DraftIsFinal ==
    /\ [][draft # NoText => draft' = draft]_vars
    /\ [](stage = "returned" =>
            /\ runRecord.draft = draft
            /\ (countOf(calls, "repair") = 0 => runRecord.final = runRecord.draft)
            /\ (pairCondition \in {"A0", "A1"} \/ maxRepairs = 0 \/ firstPassClean
                   => countOf(calls, "repair") = 0 /\ runRecord.final = runRecord.draft))

\* An A3 pair with a repair budget whose first verification was clean.
C36_Witness ==
    /\ stage = "returned"
    /\ pairCondition = "A3"
    /\ maxRepairs > 0
    /\ firstPassClean
    /\ runRecord.final = runRecord.draft
    /\ calls = <<"normalize", "state", "translate", "verify", "judge">>

\* ------------------------------------------------------------------------
\* The issues handed to the repairer (SpecPair)
\* ------------------------------------------------------------------------

\* C37: whenever processSample is about to call the repairer, the issue
\* list of the last verification, which it passes, is not empty.
C37_RepairHasIssues ==
    stage = "repair" => Len(verification.issues) > 0

\* A repair entered on failed hard checks alone: every issue passed is a
\* synthesized one.
C37_Witness ==
    /\ stage = "repair"
    /\ hardFail(verification)
    /\ ~hasCritical(verification)
    /\ passes[Len(passes)].llm = <<>>
    /\ Len(verification.issues) = Len(failedChecks(verification))

\* ------------------------------------------------------------------------
\* Progress of the rate limiter (SpecLimiterLive)
\* ------------------------------------------------------------------------

\* C38: a schedule() call that has gone to sleep in waitForSlot is
\* eventually admitted and its fn invoked, whatever rpm, tpm and the
\* declared token cost are.
C38_EventuallyAdmitted ==
    \A c \in Callers : (callPc[c] = "sleeping") ~> (callPc[c] = "running")

\* ------------------------------------------------------------------------
\* Concurrent starts of one experiment (SpecStart)
\* ------------------------------------------------------------------------

\* C39: however the start requests for one experiment interleave, at most
\* one of them sets the status to running and launches a background run;
\* every other one is rejected.
C39_StartedOnce ==
    /\ Len(launches) <= 1
    /\ Cardinality({r \in StartRequests : reqPc[r] \in {"marked", "started"}}) <= 1

\* ------------------------------------------------------------------------
\* After run() has settled (Spec)
\* ------------------------------------------------------------------------

\* C40: once run() has resolved or rejected, no pair is being processed or
\* is waiting for its record to be emitted, so nothing more reaches the
\* JSONL file or the onRecord sink.
C40_SettledIsQuiet ==
    runStatus \in {"resolved", "rejected"} => \A t \in Tasks : pc[t] \notin Active

====
